---------------------------- MODULE Spec2Model ----------------------------
(***************************************************************************)
(* Container event processing engine.                                      *)
(*                                                                         *)
(* The repository holds two implementations of the engine:                 *)
(*   src/containerProcessor.js           (definitions without suffix)      *)
(*   src/services/containerProcessor.js  (definitions with suffix Svc)     *)
(* Both export processContainerEvents(events).  The model keeps the input  *)
(* batch and, for each implementation, the value the last call returned    *)
(* (or the fact that it threw) together with the anomaly records that      *)
(* detectAnomalies produced for each container during that call.           *)
(*                                                                         *)
(* JavaScript values are records [type, value]; strings are TLA+ strings   *)
(* and are read character by character with SubSeq.  Times are seconds     *)
(* since the epoch (the inputs of the model carry no fraction of a         *)
(* second), so a difference of d seconds here is 1000 * d in the code.     *)
(***************************************************************************)
EXTENDS Integers, Sequences, FiniteSets, TLC

VARIABLES events, result, detected, resultSvc, detectedSvc, served

vars == <<events, result, detected, resultSvc, detectedSvc, served>>

---------------------------------------------------------------------------
(* JavaScript values                                                       *)

Undefined == [type |-> "undefined"]
Null == [type |-> "null"]
Str(s) == [type |-> "string", value |-> s]
Num(n) == [type |-> "number", value |-> n]
\* a plain object literal: fields is a function from own keys to values
Obj(fields) == [type |-> "object", value |-> fields]
NoFields == [k \in {} |-> Undefined]

\* ToBoolean(v), as used by !v and by && and ||
Truthy(v) ==
    CASE v.type = "undefined" -> FALSE
      [] v.type = "null" -> FALSE
      [] v.type = "string" -> v.value # ""
      [] v.type = "number" -> v.value # 0
      [] OTHER -> TRUE

\* the names every object inherits from Object.prototype, with the length of
\* the inherited function (-1: the inherited value is not a function)
ObjectPrototypeLength(key) ==
    CASE key = "constructor" -> 1
      [] key = "hasOwnProperty" -> 1
      [] key = "isPrototypeOf" -> 1
      [] key = "propertyIsEnumerable" -> 1
      [] key = "toString" -> 0
      [] key = "toLocaleString" -> 0
      [] key = "valueOf" -> 0
      [] key = "__lookupGetter__" -> 1
      [] key = "__lookupSetter__" -> 1
      [] key = "__defineGetter__" -> 2
      [] key = "__defineSetter__" -> 2
      [] OTHER -> -1

ObjectPrototypeKeys ==
    {"constructor", "hasOwnProperty", "isPrototypeOf", "propertyIsEnumerable",
     "toString", "toLocaleString", "valueOf", "__lookupGetter__",
     "__lookupSetter__", "__defineGetter__", "__defineSetter__", "__proto__"}

---------------------------------------------------------------------------
(* Strings                                                                 *)

CharAt(s, i) == SubSeq(s, i, i)

WhiteSpace == {" ", "\t", "\n", "\r"}

RECURSIVE TrimStart(_)
TrimStart(s) ==
    IF Len(s) > 0 /\ CharAt(s, 1) \in WhiteSpace
    THEN TrimStart(SubSeq(s, 2, Len(s)))
    ELSE s

RECURSIVE TrimEnd(_)
TrimEnd(s) ==
    IF Len(s) > 0 /\ CharAt(s, Len(s)) \in WhiteSpace
    THEN TrimEnd(SubSeq(s, 1, Len(s) - 1))
    ELSE s

\* String.prototype.trim
Trim(s) == TrimEnd(TrimStart(s))

\* String.prototype.includes for a one-character needle
Includes(s, c) == \E i \in 1..Len(s) : CharAt(s, i) = c

\* String.prototype.endsWith for a one-character needle
EndsWith(s, c) == Len(s) > 0 /\ CharAt(s, Len(s)) = c

Digits == {"0", "1", "2", "3", "4", "5", "6", "7", "8", "9"}

DigitVal(c) ==
    CASE c = "0" -> 0 [] c = "1" -> 1 [] c = "2" -> 2 [] c = "3" -> 3
      [] c = "4" -> 4 [] c = "5" -> 5 [] c = "6" -> 6 [] c = "7" -> 7
      [] c = "8" -> 8 [] c = "9" -> 9

AllDigits(s) == \A i \in 1..Len(s) : CharAt(s, i) \in Digits

RECURSIVE DecimalValue(_)
DecimalValue(s) ==
    IF Len(s) = 0 THEN 0
    ELSE 10 * DecimalValue(SubSeq(s, 1, Len(s) - 1)) + DigitVal(CharAt(s, Len(s)))

\* Array.prototype.join
RECURSIVE Join(_, _)
Join(list, sep) ==
    IF Len(list) = 0 THEN ""
    ELSE IF Len(list) = 1 THEN list[1]
    ELSE list[1] \o sep \o Join(Tail(list), sep)

\* Array.prototype.includes on a list of strings
ListIncludes(list, v) == \E i \in 1..Len(list) : list[i] = v

\* the text a template literal `${v}` puts in a message
TemplateText(v) ==
    CASE v.type = "undefined" -> "undefined"
      [] v.type = "null" -> "null"
      [] v.type = "string" -> v.value
      [] v.type = "number" -> ToString(v.value)
      [] OTHER -> "[object Object]"

---------------------------------------------------------------------------
(* Dates: new Date(string), as seconds since the epoch                     *)

NaN == [nan |-> TRUE, time |-> 0]
Time(t) == [nan |-> FALSE, time |-> t]

IsLeap(y) == (y % 4 = 0 /\ y % 100 # 0) \/ y % 400 = 0

DaysInMonth(y, m) ==
    IF m = 2 THEN (IF IsLeap(y) THEN 29 ELSE 28)
    ELSE IF m \in {4, 6, 9, 11} THEN 30 ELSE 31

\* days from 1970-01-01 to the civil date y-m-d
DaysFromCivil(y, m, d) ==
    LET yy == IF m <= 2 THEN y - 1 ELSE y
        era == yy \div 400
        yoe == yy - era * 400
        mp == IF m > 2 THEN m - 3 ELSE m + 9
        doy == (153 * mp + 2) \div 5 + d - 1
        doe == yoe * 365 + yoe \div 4 - yoe \div 100 + doy
    IN  era * 146097 + doe - 719468

\* the decimal number written at positions i..j of s
Field(s, i, j) == DecimalValue(SubSeq(s, i, j))

\* "YYYY-MM-DD" at position 1 of s
DateShape(s) ==
    /\ Len(s) >= 10
    /\ AllDigits(SubSeq(s, 1, 4)) /\ CharAt(s, 5) = "-"
    /\ AllDigits(SubSeq(s, 6, 7)) /\ CharAt(s, 8) = "-"
    /\ AllDigits(SubSeq(s, 9, 10))

\* "THH:MM:SS" at position 11 of s
TimeShape(s) ==
    /\ Len(s) >= 19
    /\ CharAt(s, 11) = "T"
    /\ AllDigits(SubSeq(s, 12, 13)) /\ CharAt(s, 14) = ":"
    /\ AllDigits(SubSeq(s, 15, 16)) /\ CharAt(s, 17) = ":"
    /\ AllDigits(SubSeq(s, 18, 19))

\* the time value of a date and a time of day, NaN when a field is out of range
FromFields(y, m, d, h, mi, sec) ==
    IF /\ m \in 1..12 /\ d >= 1 /\ d <= DaysInMonth(y, m)
       /\ mi <= 59 /\ sec <= 59 /\ (h <= 23 \/ (h = 24 /\ mi = 0 /\ sec = 0))
    THEN Time(DaysFromCivil(y, m, d) * 86400 + h * 3600 + mi * 60 + sec)
    ELSE NaN

\* new Date(s) for a string s in the date-time forms of the ECMAScript date string
\* format the inputs use: YYYY-MM-DD (UTC), YYYY-MM-DDTHH:MM:SS (local time; the
\* host is taken to run in UTC) and YYYY-MM-DDTHH:MM:SSZ.  Any other text of the
\* model's inputs is one no engine parses.
ParseDateString(s) ==
    IF Len(s) = 10 /\ DateShape(s)
    THEN FromFields(Field(s, 1, 4), Field(s, 6, 7), Field(s, 9, 10), 0, 0, 0)
    ELSE IF /\ DateShape(s)
            /\ TimeShape(s)
            /\ (Len(s) = 19 \/ (Len(s) = 20 /\ CharAt(s, 20) = "Z"))
         THEN FromFields(Field(s, 1, 4), Field(s, 6, 7), Field(s, 9, 10),
                         Field(s, 12, 13), Field(s, 15, 16), Field(s, 18, 19))
    ELSE NaN

\* the date strings the inputs carry
KnownDates ==
    {"", "invalid-timestamp", "not-a-date", "2024-11-15T08:30:00",
     "2024-13-15T08:30:00Z", "2024-11-15T08:30:00Z", "2024-11-15T09:30:00Z",
     "2024-11-15T08:00:00Z", "2024-11-16T08:00:00Z", "2024-11-16T08:00:01Z",
     "2024-11-16T08:00:30Z", "2024-11-16T06:00:00Z", "2024-11-16T05:59:31Z",
     "2024-11-16T05:59:30Z", "2024-11-16T09:00:00Z", "2024-11-16T05:00:00Z",
     "2024-11-15T09:00:00Z", "2024-11-15T09:00:01Z", "2024-11-16T09:00:01Z"}

\* ParseDateString tabulated once for them
ParsedDates == [s \in KnownDates |-> ParseDateString(s)]

\* new Date(v); a number is a time value in milliseconds
DateParse(v) ==
    IF v.type = "number" THEN Time(v.value \div 1000)
    ELSE IF v.type = "null" THEN Time(0)
    ELSE IF v.type # "string" THEN NaN
    ELSE IF v.value \in KnownDates THEN ParsedDates[v.value]
    ELSE ParseDateString(v.value)

\* a - b for two Date values, in seconds: NaN when either is an invalid date
DateDifference(a, b) == IF a.nan \/ b.nan THEN NaN ELSE Time(a.time - b.time)

\* Math.round(n / d) for d > 0: the nearest integer, a half rounding up
RoundDiv(n, d) == (2 * n + d) \div (2 * d)

---------------------------------------------------------------------------
(* Property lookup on a plain object literal                               *)

\* obj[key] for an object whose own properties are the function `own`: the own
\* property, else what Object.prototype supplies, else undefined
Lookup(own, key) ==
    IF key \in DOMAIN own THEN own[key]
    ELSE IF key = "__proto__" THEN [type |-> "object", value |-> NoFields]
    ELSE IF key \in ObjectPrototypeKeys
         THEN [type |-> "function", length |-> ObjectPrototypeLength(key)]
    ELSE Undefined

\* key in obj
HasProperty(own, key) == key \in DOMAIN own \/ key \in ObjectPrototypeKeys

List(l) == [type |-> "array", value |-> l]

---------------------------------------------------------------------------
(* src/containerProcessor.js: schema and validation                        *)

VALID_EVENT_TYPES ==
    <<"port_arrival", "port_departure", "customs_clearance", "customs_hold",
      "customs_inspection", "documentation_hold", "road_checkpoint",
      "lcl_pickup", "lcl_consolidation", "lcl_deconsolidation", "lcl_delivery",
      "lcl_damage_inspection", "transshipment_arrival", "transshipment_loading",
      "in_transit">>

REQUIRED_METADATA ==
    [port_arrival |-> List(<<"port_code">>),
     port_departure |-> List(<<"port_code">>),
     customs_clearance |-> List(<<"clearance_status">>),
     customs_hold |-> List(<<"hold_reason">>),
     customs_inspection |-> List(<<>>),
     documentation_hold |-> List(<<>>),
     road_checkpoint |-> List(<<>>),
     lcl_pickup |-> List(<<>>),
     lcl_consolidation |-> List(<<>>),
     lcl_deconsolidation |-> List(<<>>),
     lcl_delivery |-> List(<<>>),
     lcl_damage_inspection |-> List(<<>>),
     transshipment_arrival |-> List(<<"port_code">>),
     transshipment_loading |-> List(<<>>),
     in_transit |-> List(<<"voyage_status">>)]

isValidISO8601(dateString) ==
    IF ~Truthy(dateString) \/ dateString.type # "string" THEN FALSE
    ELSE /\ ~DateParse(dateString).nan
         /\ Includes(dateString.value, "T")
         /\ Includes(dateString.value, "Z")

\* !v || typeof v !== 'string' || v.trim() === ''
BlankOrNotString(v) ==
    \/ ~Truthy(v)
    \/ v.type # "string"
    \/ Trim(v.value) = ""

EventPrefix(index) == "Event " \o ToString(index) \o ": "

\* the messages of the requiredFields.forEach loop
RECURSIVE MissingFields(_, _, _, _)
MissingFields(fields, metadata, index, tail) ==
    IF Len(fields) = 0 THEN <<>>
    ELSE (IF HasProperty(metadata.value, Head(fields)) THEN <<>>
          ELSE <<EventPrefix(index) \o "metadata." \o Head(fields) \o tail>>)
         \o MissingFields(Tail(fields), metadata, index, tail)

\* the metadata check that ends validateEvent, given the errors pushed so far
\* and requiredFields = REQUIRED_METADATA[event.event_type]; threw = TRUE when
\* the call ends in a TypeError (requiredFields.forEach is not a function)
MetadataErrors(event, index, requiredFields, errors) ==
    IF ~(Truthy(event.event_type) /\ Truthy(requiredFields))
    THEN [threw |-> FALSE, errors |-> errors]
    ELSE IF ~Truthy(event.metadata) \/ event.metadata.type # "object"
    THEN [threw |-> FALSE,
          errors |-> Append(errors,
                            EventPrefix(index) \o "metadata is required for event_type '"
                                \o TemplateText(event.event_type) \o "'")]
    ELSE IF requiredFields.type # "array"
    THEN [threw |-> TRUE, errors |-> errors]
    ELSE [threw |-> FALSE,
          errors |-> errors \o MissingFields(requiredFields.value, event.metadata, index,
                                             " is required for event_type '"
                                                 \o TemplateText(event.event_type) \o "'")]

\* validateEvent(event, index): the errors it returns, and whether it threw
validateEvent(event, index) ==
    MetadataErrors(event, index,
        Lookup(REQUIRED_METADATA, TemplateText(event.event_type)),
        (IF BlankOrNotString(event.container_id)
         THEN <<EventPrefix(index) \o "container_id is required and must not be empty">>
         ELSE <<>>)
        \o (IF ~(event.event_type.type = "string"
                 /\ ListIncludes(VALID_EVENT_TYPES, event.event_type.value))
            THEN <<EventPrefix(index) \o "Invalid event_type '"
                     \o TemplateText(event.event_type) \o "'. Must be one of: "
                     \o Join(VALID_EVENT_TYPES, ", ")>>
            ELSE <<>>)
        \o (IF ~isValidISO8601(event.timestamp)
            THEN <<EventPrefix(index)
                     \o "timestamp must be a valid ISO 8601 format (e.g., 2024-11-15T08:30:00Z)">>
            ELSE <<>>)
        \o (IF BlankOrNotString(event.location)
            THEN <<EventPrefix(index) \o "location is required and must not be empty">>
            ELSE <<>>))

---------------------------------------------------------------------------
(* src/services/containerProcessor.js: schema and validation               *)

REQUIRED_METADATASvc ==
    [port_arrival |-> List(<<"port_code">>),
     port_departure |-> List(<<"port_code">>),
     customs_clearance |-> List(<<"clearance_status">>),
     customs_hold |-> List(<<"hold_reason">>),
     transshipment_arrival |-> List(<<"port_code">>),
     in_transit |-> List(<<"voyage_status">>)]

isValidISO8601Svc(dateString) ==
    IF ~Truthy(dateString) \/ dateString.type # "string" THEN FALSE
    ELSE /\ ~DateParse(dateString).nan
         /\ Includes(dateString.value, "T")
         /\ EndsWith(dateString.value, "Z")

\* v.length > 0 for the value `REQUIRED_METADATA[type] || []`
LengthPositive(v) ==
    CASE v.type = "array" -> Len(v.value) > 0
      [] v.type = "function" -> v.length > 0
      [] OTHER -> FALSE

\* REQUIRED_METADATA[event.event_type] || []
RequiredSvc(type) ==
    IF Truthy(Lookup(REQUIRED_METADATASvc, type))
    THEN Lookup(REQUIRED_METADATASvc, type)
    ELSE List(<<>>)

\* the metadata check that ends validateEvent, given the errors pushed so far
\* and required = REQUIRED_METADATA[event.event_type] || []
MetadataErrorsSvc(event, index, required, errors) ==
    IF ~LengthPositive(required)
    THEN [threw |-> FALSE, errors |-> errors]
    ELSE IF ~Truthy(event.metadata) \/ event.metadata.type # "object"
    THEN [threw |-> FALSE,
          errors |-> Append(errors,
                            EventPrefix(index) \o "metadata object is required for '"
                                \o TemplateText(event.event_type) \o "'")]
    ELSE IF required.type # "array"
    THEN [threw |-> TRUE, errors |-> errors]
    ELSE [threw |-> FALSE,
          errors |-> errors \o MissingFields(required.value, event.metadata, index,
                                             " is required for '"
                                                 \o TemplateText(event.event_type) \o "'")]

validateEventSvc(event, index) ==
    MetadataErrorsSvc(event, index, RequiredSvc(TemplateText(event.event_type)),
        (IF BlankOrNotString(event.container_id)
         THEN <<EventPrefix(index)
                  \o "container_id is required and must be a non-empty string">>
         ELSE <<>>)
        \o (IF ~(event.event_type.type = "string"
                 /\ ListIncludes(VALID_EVENT_TYPES, event.event_type.value))
            THEN <<EventPrefix(index) \o "Invalid event_type '"
                     \o TemplateText(event.event_type) \o "'">>
            ELSE <<>>)
        \o (IF ~isValidISO8601Svc(event.timestamp)
            THEN <<EventPrefix(index) \o "timestamp must be valid ISO 8601 with Z suffix">>
            ELSE <<>>)
        \o (IF BlankOrNotString(event.location)
            THEN <<EventPrefix(index)
                     \o "location is required and must be a non-empty string">>
            ELSE <<>>))

---------------------------------------------------------------------------
(* Shared by both files: delay, chronological sort                         *)

NoDelay == [null |-> TRUE, value |-> 0]

\* a variant that drops the sign of the difference
MinutesOfUnsigned(difference) ==
    IF difference.nan THEN NoDelay
    ELSE [null |-> FALSE,
          value |-> RoundDiv(IF difference.time < 0 THEN 0 - difference.time
                             ELSE difference.time, 60)]

\* Math.round(difference / (1000 * 60)), null for a NaN difference
MinutesOf(difference) ==
    IF difference.nan THEN NoDelay
    ELSE [null |-> FALSE, value |-> RoundDiv(difference.time, 60)]

\* calculateDelayMinutes(actualTime, expectedTime); the same text in both files
calculateDelayMinutes(actualTime, expectedTime) ==
    IF ~Truthy(expectedTime) THEN NoDelay
    ELSE MinutesOf(DateDifference(DateParse(actualTime), DateParse(expectedTime)))

\* the comparator's result is positive; a NaN result orders nothing
IsPositive(difference) == ~difference.nan /\ difference.time > 0

\* a variant with the operands of the comparator exchanged
LaterReversed(a, b) ==
    IsPositive(DateDifference(DateParse(b.timestamp), DateParse(a.timestamp)))

\* new Date(a.timestamp) - new Date(b.timestamp) > 0
Later(a, b) == IsPositive(DateDifference(DateParse(a.timestamp), DateParse(b.timestamp)))

\* a variant that places x in front of the elements of its own time
RECURSIVE InsertByTimeInFront(_, _)
InsertByTimeInFront(sorted, x) ==
    IF Len(sorted) = 0 THEN <<x>>
    ELSE IF ~Later(x, Head(sorted)) THEN <<x>> \o sorted
    ELSE <<Head(sorted)>> \o InsertByTimeInFront(Tail(sorted), x)

\* x placed in an ordered list behind every element that is not later than x
RECURSIVE InsertByTime(_, _)
InsertByTime(sorted, x) ==
    IF Len(sorted) = 0 THEN <<x>>
    ELSE IF Later(Head(sorted), x) THEN <<x>> \o sorted
    ELSE <<Head(sorted)>> \o InsertByTime(Tail(sorted), x)

\* list.sort((a, b) => new Date(a.timestamp) - new Date(b.timestamp)):
\* Array.prototype.sort is stable
RECURSIVE SortByTime(_)
SortByTime(list) ==
    IF Len(list) = 0 THEN <<>>
    ELSE InsertByTime(SortByTime(SubSeq(list, 1, Len(list) - 1)), list[Len(list)])

\* event.metadata?.expected_arrival
ExpectedArrival(event) ==
    IF event.metadata.type = "object"
    THEN Lookup(event.metadata.value, "expected_arrival")
    ELSE Undefined

\* seconds from event a to event b
SecondsBetween(a, b) == DateParse(b.timestamp).time - DateParse(a.timestamp).time

\* the index (from 1) of the first later event of the same type, 0 when none
RECURSIVE FirstSameType(_, _, _)
FirstSameType(sorted, i, j) ==
    IF j > Len(sorted) THEN 0
    ELSE IF sorted[j].event_type = sorted[i].event_type THEN j
    ELSE FirstSameType(sorted, i, j + 1)

\* list.findIndex(e => e.timestamp === timestamp && e.event_type === type), from 0
RECURSIVE FindIndexFrom(_, _, _, _)
FindIndexFrom(list, timestamp, type, k) ==
    IF k > Len(list) THEN -1
    ELSE IF list[k].timestamp = timestamp /\ list[k].event_type = type THEN k - 1
    ELSE FindIndexFrom(list, timestamp, type, k + 1)

\* concatenation of f[1], ..., f[n]
RECURSIVE Flatten(_, _)
Flatten(f, n) == IF n = 0 THEN <<>> ELSE Flatten(f, n - 1) \o f[n]

---------------------------------------------------------------------------
(* src/containerProcessor.js: anomaly detection                            *)

\* a variant that also flags a delay of exactly 120 minutes
IsLateFrom120(delay) == ~delay.null /\ delay.value >= 120

\* delayMinutes !== null && delayMinutes > 120
IsLate(delay) == ~delay.null /\ delay.value > 120

\* a variant that also flags a gap of exactly 24 hours
IsUnusualGapFrom24(seconds) == seconds >= 24 * 3600

\* gapHours > 24, gapHours = milliseconds / (1000 * 60 * 60)
IsUnusualGap(seconds) == seconds > 24 * 3600

\* a variant that leaves out a gap of exactly one hour
IsDuplicateWithinHour(seconds) == seconds < 3600

\* timeDiff <= 1, timeDiff in hours
IsDuplicate(seconds) == seconds <= 3600

sequenceRules ==
    [port_arrival |-> List(<<"customs_clearance", "customs_hold", "customs_inspection",
                             "documentation_hold", "port_departure">>),
     customs_clearance |-> List(<<"port_departure", "in_transit">>),
     customs_hold |-> List(<<"customs_clearance", "customs_inspection">>),
     customs_inspection |-> List(<<"customs_clearance">>),
     documentation_hold |-> List(<<"customs_clearance", "port_departure">>),
     port_departure |-> List(<<"in_transit", "transshipment_arrival", "port_arrival">>),
     in_transit |-> List(<<"port_arrival", "transshipment_arrival">>),
     transshipment_arrival |-> List(<<"port_departure", "transshipment_loading",
                                      "in_transit">>),
     transshipment_loading |-> List(<<"port_departure", "in_transit">>),
     lcl_pickup |-> List(<<"lcl_consolidation", "road_checkpoint", "port_arrival">>),
     lcl_consolidation |-> List(<<"port_departure", "transshipment_arrival">>),
     lcl_deconsolidation |-> List(<<"lcl_delivery", "port_departure">>),
     lcl_delivery |-> List(<<>>),
     lcl_damage_inspection |-> List(<<"lcl_delivery">>),
     road_checkpoint |-> List(<<"port_arrival", "customs_clearance", "lcl_consolidation">>)]

\* a variant that looks up the rule of the later event and searches it for the
\* type of the earlier one
OutOfSequenceBackwards(currentType, nextType) ==
    LET rule == Lookup(sequenceRules, TemplateText(nextType))
    IN  /\ Truthy(rule)
        /\ rule.type = "array"
        /\ ~ListIncludes(rule.value, TemplateText(currentType))

\* sequenceRules[currentType] && !sequenceRules[currentType].includes(nextType);
\* the events have passed validateEvent, so currentType is a key of the table
OutOfSequence(currentType, nextType) ==
    LET rule == Lookup(sequenceRules, TemplateText(currentType))
    IN  /\ Truthy(rule)
        /\ rule.type = "array"
        /\ ~ListIncludes(rule.value, TemplateText(nextType))

\* check 1 at sorted event i (from 1), given the delay calculateDelayMinutes found
LateArrival(currentEvent, i, delayMinutes) ==
    IF IsLate(delayMinutes)
    THEN <<[type |-> "late_arrival", event_index |-> i - 1,
            timestamp |-> currentEvent.timestamp,
            message |-> "Container arrived " \o ToString(delayMinutes.value)
                          \o " minutes after expected time"]>>
    ELSE <<>>

\* check 2 at sorted event i > 1, given the seconds since the event before it
UnusualGap(sorted, i, gapSeconds) ==
    IF IsUnusualGap(gapSeconds)
    THEN <<[type |-> "unusual_gap", event_index |-> i - 1,
            timestamp |-> sorted[i].timestamp,
            message |-> "More than " \o ToString(RoundDiv(gapSeconds, 3600))
                          \o " hours gap between events ("
                          \o TemplateText(sorted[i - 1].event_type) \o " and "
                          \o TemplateText(sorted[i].event_type) \o ")"]>>
    ELSE <<>>

\* a variant without the break: one anomaly for every later event of the type
\* that is within the hour
DuplicateEventEveryLater(sorted, i, j) ==
    Flatten([k \in 1..Len(sorted) |->
                IF /\ k > i
                   /\ sorted[k].event_type = sorted[i].event_type
                   /\ IsDuplicate(SecondsBetween(sorted[i], sorted[k]))
                THEN <<[type |-> "duplicate_event", event_index |-> k - 1,
                        timestamp |-> sorted[k].timestamp,
                        message |-> "Duplicate " \o TemplateText(sorted[i].event_type)
                                      \o " event detected within 1 hour"]>>
                ELSE <<>>],
            Len(sorted))

\* check 3 at sorted event i, given the first later event j of its type (0: none)
DuplicateEvent(sorted, i, j) ==
    IF j # 0 /\ IsDuplicate(SecondsBetween(sorted[i], sorted[j]))
    THEN <<[type |-> "duplicate_event", event_index |-> j - 1,
            timestamp |-> sorted[j].timestamp,
            message |-> "Duplicate " \o TemplateText(sorted[i].event_type)
                          \o " event detected within 1 hour"]>>
    ELSE <<>>

\* the anomalies pushed while the first loop is at sorted event i (from 1)
LoopAnomalies(sorted, i) ==
    (IF /\ sorted[i].event_type = Str("port_arrival")
        /\ Truthy(ExpectedArrival(sorted[i]))
     THEN LateArrival(sorted[i], i,
              calculateDelayMinutes(sorted[i].timestamp, ExpectedArrival(sorted[i])))
     ELSE <<>>)
    \o (IF i > 1
        THEN UnusualGap(sorted, i, SecondsBetween(sorted[i - 1], sorted[i]))
        ELSE <<>>)
    \o DuplicateEvent(sorted, i, FirstSameType(sorted, i, i + 1))

\* the anomaly pushed by the second loop for the pair (i, i + 1), if any
PairAnomalies(list, sorted, i) ==
    LET currentType == sorted[i].event_type
        nextType == sorted[i + 1].event_type
    IN  IF OutOfSequence(currentType, nextType)
        THEN <<[type |-> "out_of_sequence",
                event_index |-> FindIndexFrom(list, sorted[i + 1].timestamp, nextType, 1),
                timestamp |-> sorted[i + 1].timestamp,
                message |-> "Out of sequence: " \o TemplateText(nextType) \o " follows "
                              \o TemplateText(currentType) \o " unexpectedly"]>>
        ELSE <<>>

\* a variant with one loop, the pair (i, i + 1) checked while at event i
AnomaliesOfOneLoop(list, sortedEvents) ==
    Flatten([i \in 1..Len(sortedEvents) |->
                LoopAnomalies(sortedEvents, i)
                \o (IF i < Len(sortedEvents) THEN PairAnomalies(list, sortedEvents, i)
                    ELSE <<>>)],
            Len(sortedEvents))

\* the two loops over sortedEvents = [...events].sort(...)
AnomaliesOf(list, sortedEvents) ==
    Flatten([i \in 1..Len(sortedEvents) |-> LoopAnomalies(sortedEvents, i)],
            Len(sortedEvents))
    \o (IF Len(sortedEvents) = 0 THEN <<>>
        ELSE Flatten([i \in 1..(Len(sortedEvents) - 1) |->
                         PairAnomalies(list, sortedEvents, i)],
                     Len(sortedEvents) - 1))

detectAnomalies(list) == AnomaliesOf(list, SortByTime(list))

statusMap ==
    [port_arrival |-> "at_port", port_departure |-> "departed",
     customs_clearance |-> "cleared_customs", customs_hold |-> "held_by_customs",
     customs_inspection |-> "under_customs_inspection",
     documentation_hold |-> "documentation_hold", road_checkpoint |-> "in_transit_road",
     lcl_pickup |-> "picked_up", lcl_consolidation |-> "consolidating",
     lcl_deconsolidation |-> "deconsolidating", lcl_delivery |-> "delivered",
     lcl_damage_inspection |-> "damage_inspection",
     transshipment_arrival |-> "at_transshipment_port",
     transshipment_loading |-> "transshipment_loading", in_transit |-> "in_transit"]

\* statusMap[lastEvent.event_type] || 'unknown'
getCurrentStatus(lastEvent) ==
    LET key == TemplateText(lastEvent.event_type)
    IN  IF key \in DOMAIN statusMap THEN statusMap[key] ELSE "unknown"

milestoneEvents ==
    <<"port_arrival", "customs_clearance", "port_departure", "in_transit", "port_arrival">>

\* a variant that starts the template again at an event that is not the
\* milestone awaited
RECURSIVE MilestoneWalkRestart(_, _, _)
MilestoneWalkRestart(sorted, k, milestoneIndex) ==
    IF k > Len(sorted) THEN milestoneIndex
    ELSE IF /\ milestoneIndex < Len(milestoneEvents)
            /\ Str(milestoneEvents[milestoneIndex + 1]) = sorted[k].event_type
         THEN MilestoneWalkRestart(sorted, k + 1, milestoneIndex + 1)
    ELSE MilestoneWalkRestart(sorted, k + 1, 0)

\* the value of milestoneIndex after the walk over sorted[k..]
RECURSIVE MilestoneWalk(_, _, _)
MilestoneWalk(sorted, k, milestoneIndex) ==
    IF k > Len(sorted) THEN milestoneIndex
    ELSE IF /\ milestoneIndex < Len(milestoneEvents)
            /\ Str(milestoneEvents[milestoneIndex + 1]) = sorted[k].event_type
         THEN MilestoneWalk(sorted, k + 1, milestoneIndex + 1)
    ELSE MilestoneWalk(sorted, k + 1, milestoneIndex)

Min(a, b) == IF a <= b THEN a ELSE b

calculateJourneyProgress(list) ==
    IF Len(list) = 0 THEN 0
    ELSE Min(RoundDiv(MilestoneWalk(SortByTime(list), 1, 0) * 100, Len(milestoneEvents)),
             100)

---------------------------------------------------------------------------
(* src/services/containerProcessor.js: anomaly detection                   *)

\* delay > 120, where a null delay compares as 0
IsLateSvc(delay) == (IF delay.null THEN 0 ELSE delay.value) > 120

\* gapHours > 24, gapHours = milliseconds / 3600000
IsUnusualGapSvc(seconds) == seconds > 24 * 3600

\* diffHours <= 1
IsDuplicateSvc(seconds) == seconds <= 3600

sequenceRulesSvc ==
    [port_arrival |-> List(<<"customs_clearance", "customs_hold", "customs_inspection",
                             "documentation_hold", "port_departure">>),
     customs_clearance |-> List(<<"port_departure", "in_transit">>),
     customs_hold |-> List(<<"customs_clearance", "customs_inspection">>),
     customs_inspection |-> List(<<"customs_clearance">>),
     documentation_hold |-> List(<<"customs_clearance", "port_departure">>),
     port_departure |-> List(<<"in_transit", "transshipment_arrival", "port_arrival">>),
     in_transit |-> List(<<"port_arrival", "transshipment_arrival">>),
     transshipment_arrival |-> List(<<"transshipment_loading", "port_departure",
                                      "in_transit">>),
     transshipment_loading |-> List(<<"port_departure", "in_transit">>)]

\* allowed = sequenceRules[currentType] || []; !allowed.includes(nextType);
\* the events have passed validateEvent, so currentType is an event type
OutOfSequenceSvc(currentType, nextType) ==
    LET found == Lookup(sequenceRulesSvc, TemplateText(currentType))
        allowed == IF Truthy(found) THEN found ELSE List(<<>>)
    IN  /\ allowed.type = "array"
        /\ ~ListIncludes(allowed.value, TemplateText(nextType))

\* check 1 at sorted event curr, given the delay calculateDelayMinutes found
LateArrivalSvc(curr, delay) ==
    IF IsLateSvc(delay)
    THEN <<[type |-> "late_arrival",
            message |-> "Arrived " \o ToString(delay.value) \o " minutes late",
            timestamp |-> curr.timestamp]>>
    ELSE <<>>

\* check 2 at sorted event curr, given the seconds since the event before it
UnusualGapSvc(curr, gapSeconds) ==
    IF IsUnusualGapSvc(gapSeconds)
    THEN <<[type |-> "unusual_gap",
            message |-> "Gap of " \o ToString(RoundDiv(gapSeconds, 3600))
                          \o " hours from previous event",
            timestamp |-> curr.timestamp]>>
    ELSE <<>>

\* check 3 at sorted event i, given the first later event j of its type (0: none)
DuplicateEventSvc(sorted, i, j) ==
    IF j # 0 /\ IsDuplicateSvc(SecondsBetween(sorted[i], sorted[j]))
    THEN <<[type |-> "duplicate_event",
            message |-> "Duplicate " \o TemplateText(sorted[i].event_type)
                          \o " within 1 hour",
            timestamp |-> sorted[j].timestamp]>>
    ELSE <<>>

LoopAnomaliesSvc(sorted, i) ==
    (IF /\ sorted[i].event_type = Str("port_arrival")
        /\ Truthy(ExpectedArrival(sorted[i]))
     THEN LateArrivalSvc(sorted[i],
              calculateDelayMinutes(sorted[i].timestamp, ExpectedArrival(sorted[i])))
     ELSE <<>>)
    \o (IF i > 1
        THEN UnusualGapSvc(sorted[i], SecondsBetween(sorted[i - 1], sorted[i]))
        ELSE <<>>)
    \o DuplicateEventSvc(sorted, i, FirstSameType(sorted, i, i + 1))

PairAnomaliesSvc(sorted, i) ==
    LET currentType == sorted[i].event_type
        nextType == sorted[i + 1].event_type
    IN  IF OutOfSequenceSvc(currentType, nextType)
        THEN <<[type |-> "out_of_sequence",
                message |-> "Unexpected sequence: '" \o TemplateText(nextType)
                              \o "' follows '" \o TemplateText(currentType) \o "'",
                timestamp |-> sorted[i + 1].timestamp]>>
        ELSE <<>>

\* the two loops over sortedEvents = [...events].sort(...)
AnomaliesOfSvc(sortedEvents) ==
    Flatten([i \in 1..Len(sortedEvents) |-> LoopAnomaliesSvc(sortedEvents, i)],
            Len(sortedEvents))
    \o Flatten([i \in 1..(Len(sortedEvents) - 1) |-> PairAnomaliesSvc(sortedEvents, i)],
               Len(sortedEvents) - 1)

detectAnomaliesSvc(list) ==
    IF Len(list) = 0 THEN <<>> ELSE AnomaliesOfSvc(SortByTime(list))

\* the object literal names port_arrival twice; the later entry is the one kept
statusMapSvc ==
    [port_departure |-> "Departed Port", customs_clearance |-> "Cleared Customs",
     customs_hold |-> "Held at Customs", in_transit |-> "In Transit",
     lcl_delivery |-> "Delivered", port_arrival |-> "Arrived at Destination"]

\* map[lastEvent.event_type] || 'In Progress'
getCurrentStatusSvc(lastEvent) ==
    LET key == TemplateText(lastEvent.event_type)
    IN  IF key \in DOMAIN statusMapSvc THEN statusMapSvc[key] ELSE "In Progress"

\* the value of count after the walk over list[k..], seen the types consumed
RECURSIVE MilestoneWalkSvc(_, _, _, _)
MilestoneWalkSvc(list, k, count, seen) ==
    IF k > Len(list) THEN count
    ELSE IF /\ count < Len(milestoneEvents)
            /\ Str(milestoneEvents[count + 1]) = list[k].event_type
            /\ list[k].event_type \notin seen
         THEN MilestoneWalkSvc(list, k + 1, count + 1, seen \cup {list[k].event_type})
    ELSE MilestoneWalkSvc(list, k + 1, count, seen)

\* the events are walked in the order given: the caller has sorted them
calculateJourneyProgressSvc(list) ==
    IF Len(list) = 0 THEN 0
    ELSE RoundDiv(MilestoneWalkSvc(list, 1, 0, {}) * 100, Len(milestoneEvents))

---------------------------------------------------------------------------
(* Grouping by container_id in a plain object, and for...in                *)

\* the position (from 1) of key among the own keys, 0 when it is not one
RECURSIVE KeyPosition(_, _, _)
KeyPosition(containers, key, k) ==
    IF k > Len(containers) THEN 0
    ELSE IF containers[k].key = key THEN k
    ELSE KeyPosition(containers, key, k + 1)

\* events.forEach(event => { if (!containers[id]) containers[id] = [];
\*                           containers[id].push(event); })
\* containers is a list of [key, list] in order of creation; threw = TRUE when
\* containers[id] is a value inherited from Object.prototype, which has no push
RECURSIVE GroupEvents(_, _, _)
GroupEvents(list, k, containers) ==
    IF k > Len(list) THEN [threw |-> FALSE, containers |-> containers]
    ELSE LET key == TemplateText(list[k].container_id)
             at == KeyPosition(containers, key, 1)
         IN  IF at # 0
             THEN GroupEvents(list, k + 1,
                      [containers EXCEPT ![at].list = Append(@, list[k])])
             ELSE IF key \in ObjectPrototypeKeys
                  THEN [threw |-> TRUE, containers |-> containers]
             ELSE GroupEvents(list, k + 1,
                      Append(containers, [key |-> key, list |-> <<list[k]>>]))

\* a < b for two strings of digits of the same length
RECURSIVE DigitStringLess(_, _)
DigitStringLess(a, b) ==
    IF Len(a) = 0 THEN FALSE
    ELSE IF CharAt(a, 1) # CharAt(b, 1) THEN DigitVal(CharAt(a, 1)) < DigitVal(CharAt(b, 1))
    ELSE DigitStringLess(SubSeq(a, 2, Len(a)), SubSeq(b, 2, Len(b)))

\* key is an array index: the canonical decimal text of an integer in 0 .. 2^32 - 2
IsArrayIndex(key) ==
    /\ Len(key) >= 1
    /\ AllDigits(key)
    /\ (Len(key) = 1 \/ CharAt(key, 1) # "0")
    /\ (Len(key) < 10 \/ (Len(key) = 10 /\ ~DigitStringLess("4294967294", key)))

\* numeric order of two array indices
IndexLess(a, b) == Len(a) < Len(b) \/ (Len(a) = Len(b) /\ DigitStringLess(a, b))

RECURSIVE InsertIndex(_, _)
InsertIndex(sorted, x) ==
    IF Len(sorted) = 0 THEN <<x>>
    ELSE IF IndexLess(x.key, Head(sorted).key) THEN <<x>> \o sorted
    ELSE <<Head(sorted)>> \o InsertIndex(Tail(sorted), x)

RECURSIVE SortIndices(_)
SortIndices(list) ==
    IF Len(list) = 0 THEN <<>>
    ELSE InsertIndex(SortIndices(Tail(list)), Head(list))

IsIndexEntry(c) == IsArrayIndex(c.key)
IsNameEntry(c) == ~IsArrayIndex(c.key)

\* for (const id in containers): the own keys that are array indices in
\* ascending numeric order, then the other keys in order of creation
ForIn(containers) ==
    SortIndices(SelectSeq(containers, IsIndexEntry)) \o SelectSeq(containers, IsNameEntry)

---------------------------------------------------------------------------
(* processContainerEvents                                                  *)

NotCalled == [kind |-> "none"]
Rejection(errors) ==
    [kind |-> "rejection", error |-> "Validation failed", validation_errors |-> errors]
Summaries(list) == [kind |-> "summaries", summaries |-> list]
Thrown == [kind |-> "TypeError"]

\* timelineItem.delay_minutes = delay, if delay !== null
WithDelay(timelineItem, delay) ==
    IF delay.null THEN timelineItem
    ELSE [event_type |-> timelineItem.event_type, timestamp |-> timelineItem.timestamp,
          location |-> timelineItem.location, delay_minutes |-> delay.value]

\* the timeline entry of one event; the same text in both files
TimelineItem(event) ==
    IF event.event_type = Str("port_arrival") /\ Truthy(ExpectedArrival(event))
    THEN WithDelay([event_type |-> event.event_type, timestamp |-> event.timestamp,
                    location |-> event.location],
                   calculateDelayMinutes(event.timestamp, ExpectedArrival(event)))
    ELSE [event_type |-> event.event_type, timestamp |-> event.timestamp,
          location |-> event.location]

\* anomalies.map(a => ({ type: a.type, message: a.message }))
Surface(anomalies) ==
    [i \in 1..Len(anomalies) |-> [type |-> anomalies[i].type, message |-> anomalies[i].message]]

\* the body of the loop over the containers, src/containerProcessor.js, given
\* sortedEvents = [...containerEvents].sort(...) and
\* anomalies = detectAnomalies(containerEvents): the summary pushed, and the
\* anomaly records behind it
Summary(containerId, containerEvents, sortedEvents, anomalies) ==
    [summary |->
        [container_id |-> Str(containerId),
         current_status |-> getCurrentStatus(sortedEvents[Len(sortedEvents)]),
         current_location |-> sortedEvents[Len(sortedEvents)].location,
         last_event_time |-> sortedEvents[Len(sortedEvents)].timestamp,
         timeline |-> [i \in 1..Len(sortedEvents) |-> TimelineItem(sortedEvents[i])],
         anomalies |-> Surface(anomalies),
         journey_progress |-> calculateJourneyProgress(containerEvents)],
     detected |-> [container_id |-> Str(containerId), anomalies |-> anomalies]]

\* the body of the loop over the containers, src/services/containerProcessor.js:
\* evts.sort(...) sorts the group in place, so evts and sorted are the same
\* sorted list; anomalies = detectAnomalies(evts)
SummarySvc(id, sorted, anomalies) ==
    [summary |->
        [container_id |-> Str(id),
         current_status |-> getCurrentStatusSvc(sorted[Len(sorted)]),
         current_location |-> sorted[Len(sorted)].location,
         last_event_time |-> sorted[Len(sorted)].timestamp,
         total_events |-> Len(sorted),
         journey_progress |-> calculateJourneyProgressSvc(sorted),
         anomalies |-> Surface(anomalies),
         timeline |-> [i \in 1..Len(sorted) |-> TimelineItem(sorted[i])]],
     detected |-> [container_id |-> Str(id), anomalies |-> anomalies]]

\* the value returned for the containers processed: the list of summaries, and
\* the anomaly records detectAnomalies gave for each container
Results(processed) ==
    [result |-> Summaries([k \in 1..Len(processed) |-> processed[k].summary]),
     detected |-> [k \in 1..Len(processed) |-> processed[k].detected]]

\* a call that returns value, or ends in the exception, before any container
\* is processed
Ended(value) == [result |-> value, detected |-> <<>>]

\* a variant that stops validating at the first event with an error
OutcomeAtFirstError(checks, grouped) ==
    LET failing == {i \in 1..Len(checks) : Len(checks[i].errors) > 0}
        order == ForIn(grouped.containers)
    IN  IF \E i \in 1..Len(checks) : checks[i].threw THEN Ended(Thrown)
        ELSE IF failing # {}
             THEN Ended(Rejection(checks[CHOOSE i \in failing :
                                            \A j \in failing : i <= j].errors))
        ELSE IF grouped.threw THEN Ended(Thrown)
        ELSE Results([k \in 1..Len(order) |->
                         Summary(order[k].key, order[k].list, SortByTime(order[k].list),
                                 detectAnomalies(order[k].list))])

\* processContainerEvents of src/containerProcessor.js, given
\* checks[i] = validateEvent of event i and the outcome of the grouping loop
Outcome(checks, grouped) ==
    LET validationErrors == Flatten([i \in 1..Len(checks) |-> checks[i].errors], Len(checks))
        order == ForIn(grouped.containers)
    IN  IF \E i \in 1..Len(checks) : checks[i].threw THEN Ended(Thrown)
        ELSE IF Len(validationErrors) > 0 THEN Ended(Rejection(validationErrors))
        ELSE IF grouped.threw THEN Ended(Thrown)
        ELSE Results([k \in 1..Len(order) |->
                         Summary(order[k].key, order[k].list, SortByTime(order[k].list),
                                 detectAnomalies(order[k].list))])

\* processContainerEvents(list) of src/containerProcessor.js: the value returned
\* (or Thrown) and the anomaly records detectAnomalies gave for each container
processContainerEvents(list) ==
    Outcome([i \in 1..Len(list) |-> validateEvent(list[i], i - 1)],
            GroupEvents(list, 1, <<>>))

OutcomeSvc(checks, grouped) ==
    LET validationErrors == Flatten([i \in 1..Len(checks) |-> checks[i].errors], Len(checks))
        order == ForIn(grouped.containers)
    IN  IF \E i \in 1..Len(checks) : checks[i].threw THEN Ended(Thrown)
        ELSE IF Len(validationErrors) > 0 THEN Ended(Rejection(validationErrors))
        ELSE IF grouped.threw THEN Ended(Thrown)
        ELSE Results([k \in 1..Len(order) |->
                         SummarySvc(order[k].key, SortByTime(order[k].list),
                                    detectAnomaliesSvc(SortByTime(order[k].list)))])

\* processContainerEvents(list) of src/services/containerProcessor.js
processContainerEventsSvc(list) ==
    OutcomeSvc([i \in 1..Len(list) |-> validateEventSvc(list[i], i - 1)],
               GroupEvents(list, 1, <<>>))

---------------------------------------------------------------------------
(* Inputs                                                                  *)

Event(id, type, timestamp, location, metadata) ==
    [container_id |-> id, event_type |-> type, timestamp |-> timestamp,
     location |-> location, metadata |-> metadata]

PortCode == Obj([port_code |-> Str("SG")])

\* a well-formed port_arrival
WellFormed ==
    Event(Str("A"), Str("port_arrival"), Str("2024-11-15T08:30:00Z"),
          Str("Port of Singapore"), PortCode)

AnyContainerId == {Undefined, Str(" "), Num(7), Str("A"), Str("constructor")}
AnyEventType ==
    {Undefined, Str("invalid_event_type"), Str("constructor"), Str("port_arrival"),
     Str("lcl_pickup")}
AnyTimestamp ==
    {Undefined, Str("invalid-timestamp"), Str("2024-11-15T08:30:00"),
     Str("2024-13-15T08:30:00Z"), Str("2024-11-15T08:30:00Z")}
AnyLocation == {Undefined, Str(" "), Str("Port of Singapore")}
AnyMetadata == {Undefined, Str("SG"), Obj(NoFields), PortCode}

\* the number of fields in which e differs from the well-formed event
Deviations(e) ==
    (IF e.container_id # WellFormed.container_id THEN 1 ELSE 0)
    + (IF e.event_type # WellFormed.event_type THEN 1 ELSE 0)
    + (IF e.timestamp # WellFormed.timestamp THEN 1 ELSE 0)
    + (IF e.location # WellFormed.location THEN 1 ELSE 0)
    + (IF e.metadata # WellFormed.metadata THEN 1 ELSE 0)

\* event records for the validator: the well-formed event, every record that
\* differs from it in one field, the events of a type that needs no metadata and
\* of a type named like a member of Object.prototype, with and without a
\* metadata object, and a record with every field unusable
AnyEvent ==
    {e \in [container_id : AnyContainerId, event_type : AnyEventType,
            timestamp : AnyTimestamp, location : AnyLocation,
            metadata : AnyMetadata] :
        \/ Deviations(e) <= 1
        \/ /\ e.container_id = Str("A")
           /\ e.event_type \in {Str("lcl_pickup"), Str("constructor")}
           /\ e.timestamp = WellFormed.timestamp
           /\ e.location = WellFormed.location
           /\ e.metadata \in {Undefined, Obj(NoFields)}
        \/ /\ e.container_id = Str(" ")
           /\ e.event_type = Undefined
           /\ e.timestamp = Str("invalid-timestamp")
           /\ e.location = Undefined
           /\ e.metadata = Undefined}

\* well-formed events of several containers, for grouping: the container ids
\* include array indices and a name inherited from Object.prototype
GroupedContainerId == {Str("A"), Str("2"), Str("10"), Str("constructor")}
GroupedEvent ==
    {Event(id, Str("lcl_pickup"), t, Str("Depot"), Obj(NoFields)) :
        id \in GroupedContainerId,
        t \in {Str("2024-11-15T08:30:00Z"), Str("2024-11-15T09:30:00Z")}}

\* the metadata validateEvent asks of a type, in both files
MetadataFor(type) ==
    CASE type = "port_arrival" -> PortCode
      [] type = "customs_clearance" -> Obj([clearance_status |-> Str("approved")])
      [] OTHER -> Obj(NoFields)

\* well-formed events of one container, for the gap and the sequence rules:
\* every type at a first time and 24 hours and 1 second later, and one event
\* exactly 24 hours after the first time
TrackedType == {"port_arrival", "customs_clearance", "lcl_damage_inspection", "lcl_delivery"}
TrackedTime == {"2024-11-15T08:00:00Z", "2024-11-16T08:00:01Z"}
TrackedEvent ==
    {Event(Str("A"), Str(type), Str(t), Str("Port of Singapore"), MetadataFor(type)) :
        type \in TrackedType, t \in TrackedTime}
    \cup {Event(Str("A"), Str("customs_clearance"), Str("2024-11-16T08:00:00Z"),
                Str("Port of Singapore"), MetadataFor("customs_clearance"))}

\* well-formed arrivals with and without metadata.expected_arrival: from the
\* expected times to 08:00:00 are 120 min, 120 min 29 s, 120 min 30 s and -60 min
ArrivalTime == {"2024-11-16T08:00:00Z", "2024-11-16T08:00:30Z"}
ExpectedTime ==
    {Str(""), Str("not-a-date"), Str("2024-11-16T06:00:00Z"), Str("2024-11-16T05:59:31Z"),
     Str("2024-11-16T05:59:30Z"), Str("2024-11-16T09:00:00Z")}
ArrivalMetadata ==
    {PortCode}
    \cup {Obj([port_code |-> Str("SG"), expected_arrival |-> x]) : x \in ExpectedTime}
ArrivalEvent ==
    {Event(Str("A"), Str("port_arrival"), Str(t), Str("Port of Singapore"), m) :
        t \in ArrivalTime, m \in ArrivalMetadata}
    \cup {Event(Str("A"), Str("customs_clearance"), Str("2024-11-16T08:00:00Z"),
                Str("Customs"),
                Obj([clearance_status |-> Str("approved"),
                     expected_arrival |-> Str("2024-11-16T05:00:00Z")]))}

\* well-formed events of one container, for the duplicate rule: two types at a
\* first time, exactly one hour later and one second after that
RepeatedEvent ==
    {Event(Str("A"), Str(type), Str(t), Str("Port of Singapore"), MetadataFor(type)) :
        type \in {"port_arrival", "customs_clearance"},
        t \in {"2024-11-15T08:00:00Z", "2024-11-15T09:00:00Z", "2024-11-15T09:00:01Z"}}

\* well-formed events of one container, for the journey: the milestone types
\* in their order, two pairs of them at the same instant, and a second arrival
\* 24 hours and 1 second after the event before it
JourneyEvent ==
    LET JourneyMetadata ==
            Obj([port_code |-> Str("SG"), clearance_status |-> Str("approved"),
                 voyage_status |-> Str("under way"),
                 expected_arrival |-> Str("2024-11-15T09:00:00Z")])
    IN
    {Event(Str("A"), Str("port_arrival"), Str("2024-11-15T08:00:00Z"),
           Str("Port of Singapore"), JourneyMetadata),
     Event(Str("A"), Str("customs_clearance"), Str("2024-11-15T08:00:00Z"),
           Str("Customs"), JourneyMetadata),
     Event(Str("A"), Str("port_departure"), Str("2024-11-15T09:00:00Z"),
           Str("Port of Singapore"), JourneyMetadata),
     Event(Str("A"), Str("in_transit"), Str("2024-11-15T09:00:00Z"),
           Str("At sea"), JourneyMetadata),
     Event(Str("A"), Str("port_arrival"), Str("2024-11-16T09:00:01Z"),
           Str("Port of Rotterdam"), JourneyMetadata)}

MaxBatch == 2
MaxGrouped == 3
MaxTracked == 3
MaxArrivals == 2
MaxRepeated == 3
MaxJourney == 4
MaxMilestones == 5
MaxPosted == 2
MaxShipments == 2

---------------------------------------------------------------------------
(* The adapters: the routes of src/unnamed/part_002, the controller of      *)
(* src/controllers/containerController.js and the script src/process-file.js*)
(* An answer is the status of the response (of the process, for the script) *)
(* and the JSON it carries; invoked tells whether processContainerEvents    *)
(* was called, and passed is the list it was called with.  The text of an   *)
(* exception of the engine is written as the name of the exception.         *)

\* what the forEach callback of /process-batch pushes for one shipment, in the
\* routes and in the controller: { ...event, container_id: shipment.container_id
\* || fallback } for each event; threw if the callback reads a field of null
BatchEvents(shipment, fallback) ==
    IF shipment.type \in {"null", "undefined"} THEN [threw |-> TRUE, list |-> <<>>]
    ELSE IF /\ shipment.type = "object"
            /\ Truthy(Lookup(shipment.value, "events"))
            /\ Lookup(shipment.value, "events").type = "array"
         THEN [threw |-> FALSE,
               list |-> [k \in 1..Len(shipment.value.events.value) |->
                            [shipment.value.events.value[k] EXCEPT !.container_id =
                                IF Truthy(Lookup(shipment.value, "container_id"))
                                THEN shipment.value.container_id
                                ELSE Str(fallback)]]]
    ELSE [threw |-> FALSE, list |-> <<>>]

\* the same callback in /process-file of the routes and in the script: a
\* shipment without container_id is left out with a warning
FileEvents(shipment) ==
    IF shipment.type \in {"null", "undefined"} THEN [threw |-> TRUE, list |-> <<>>]
    ELSE IF shipment.type # "object" \/ ~Truthy(Lookup(shipment.value, "container_id"))
         THEN [threw |-> FALSE, list |-> <<>>]
    ELSE IF /\ Truthy(Lookup(shipment.value, "events"))
            /\ Lookup(shipment.value, "events").type = "array"
         THEN [threw |-> FALSE,
               list |-> [k \in 1..Len(shipment.value.events.value) |->
                            [shipment.value.events.value[k] EXCEPT !.container_id =
                                shipment.value.container_id]]]
    ELSE [threw |-> FALSE, list |-> <<>>]

\* the callback in processFile of the controller: s.events.forEach is called on
\* whatever truthy value s.events is
FileEventsSvc(s) ==
    IF s.type \in {"null", "undefined"} THEN [threw |-> TRUE, list |-> <<>>]
    ELSE IF /\ s.type = "object"
            /\ Truthy(Lookup(s.value, "container_id"))
            /\ Truthy(Lookup(s.value, "events"))
         THEN IF Lookup(s.value, "events").type = "array"
              THEN [threw |-> FALSE,
                    list |-> [k \in 1..Len(s.value.events.value) |->
                                 [s.value.events.value[k] EXCEPT !.container_id =
                                     s.value.container_id]]]
              ELSE [threw |-> TRUE, list |-> <<>>]
    ELSE [threw |-> FALSE, list |-> <<>>]

\* allEvents after shipments.forEach, pushed[k] being what the callback did
\* for shipment k
Gathered(pushed) ==
    [threw |-> \E k \in 1..Len(pushed) : pushed[k].threw,
     list |-> Flatten([k \in 1..Len(pushed) |-> pushed[k].list], Len(pushed))]

\* an answer given before processContainerEvents is called
Refused(status, body) ==
    [invoked |-> FALSE, passed |-> <<>>, status |-> status, body |-> Obj(body)]

\* a variant that answers a rejection without the list of its errors
AnsweredWithoutErrors(list, r, failure, rejection, success) ==
    [invoked |-> TRUE, passed |-> list, returned |-> r] @@
    (IF r.kind = "TypeError" THEN [status |-> 500, body |-> Obj(failure)]
     ELSE IF r.kind = "rejection"
          THEN [status |-> 400, body |-> Obj([error |-> r.error] @@ rejection)]
     ELSE [status |-> 200,
           body |-> Obj([success |-> TRUE, containers_processed |-> Len(r.summaries),
                         results |-> r.summaries] @@ success)])

\* the answer of an HTTP adapter that called processContainerEvents(list) and
\* got r: the catch block's answer if it threw, res.status(400).json({...result,
\* ...rejection}) if result.error, else res.json({success: true, ...})
Answered(list, r, failure, rejection, success) ==
    [invoked |-> TRUE, passed |-> list, returned |-> r] @@
    (IF r.kind = "TypeError" THEN [status |-> 500, body |-> Obj(failure)]
     ELSE IF r.kind = "rejection"
          THEN [status |-> 400,
                body |-> Obj([error |-> r.error,
                              validation_errors |-> r.validation_errors] @@ rejection)]
     ELSE [status |-> 200,
           body |-> Obj([success |-> TRUE, containers_processed |-> Len(r.summaries),
                         results |-> r.summaries] @@ success)])

\* what src/process-file.js leaves behind once processContainerEvents(list)
\* returned r (lines 96-139): the validation errors on stderr and exit status
\* 1 if result.error, else the banner and the result itself on stdout
ScriptOutput(file, list, r) ==
    [invoked |-> TRUE, passed |-> list, returned |-> r] @@
    (IF r.kind = "TypeError"
     THEN [status |-> 1, body |-> Undefined, stdout |-> <<>>, stderr |-> <<"TypeError">>]
     ELSE IF r.kind = "rejection"
          THEN [status |-> 1, body |-> Undefined, stdout |-> <<>>,
                stderr |-> <<"Validation Errors:">>
                           \o [k \in 1..Len(r.validation_errors) |->
                                  "  - " \o r.validation_errors[k]]]
     ELSE [status |-> 0, body |-> List(r.summaries),
           stdout |-> <<"File: " \o file.path.value,
                        "Shipments Processed: " \o ToString(Len(file.content.value)),
                        "Containers Processed: " \o ToString(Len(r.summaries)),
                        "Total Events: " \o ToString(Len(list))>>,
           stderr |-> <<>>, saved |-> List(r.summaries)])

\* request bodies of /process: an object, the empty array, arrays of events
EventBodies ==
    {Obj(NoFields)}
    \cup {List(l) : l \in UNION {[1..n -> {WellFormed, [WellFormed EXCEPT !.location = Str(" ")],
                                           [WellFormed EXCEPT !.container_id = Str("B")]}] :
                                     n \in 0..MaxPosted}}

\* shipments: null, and objects with or without a container_id whose events
\* are missing, a string, or an array of events that carry no container_id
Shipment ==
    {Null, Obj([container_id |-> Str("A")]),
     Obj([container_id |-> Str("A"), events |-> Str("none")])}
    \cup {Obj(fields) :
            fields \in
               {[events |-> List(l)] : l \in {<<>>}}
               \cup {c @@ [events |-> List(l)] :
                       c \in {NoFields, [container_id |-> Str("A")],
                              [container_id |-> Str("B")]},
                       l \in {<<[WellFormed EXCEPT !.container_id = Undefined]>>,
                              <<[WellFormed EXCEPT !.container_id = Undefined],
                                [WellFormed EXCEPT !.container_id = Undefined,
                                                   !.location = Str(" ")]>>}}}

\* request bodies of /process-batch, and what a file of shipments parses to
ShipmentBodies ==
    {Obj(NoFields)} \cup {List(l) : l \in UNION {[1..n -> Shipment] : n \in 0..MaxShipments}}

\* the file a path names: none at the path, one that cannot be read, one that
\* is not JSON, or one that parses to content; path is undefined when the
\* request carries no file_path (the script: no argument)
Files ==
    {[path |-> Undefined, state |-> "missing"]}
    \cup {[path |-> Str("/data/shipments.json"), state |-> x] :
            x \in {"missing", "unreadable", "broken"}}
    \cup {[path |-> Str("/data/shipments.json"), state |-> "parsed", content |-> b] :
            b \in ShipmentBodies}

---------------------------------------------------------------------------
(* The state machine                                                       *)

Init ==
    /\ events = <<>>
    /\ result = NotCalled
    /\ detected = <<>>
    /\ resultSvc = NotCalled
    /\ detectedSvc = <<>>
    /\ served = [adapter |-> "none"]

\* the caller's array after processContainerEvents(list) of
\* src/containerProcessor.js: the function reads it with forEach, pushes its
\* events to arrays of its own and sorts a copy of each ([...containerEvents]);
\* it assigns to no element and to no field of an event
InputAfter(list) == list

\* a variant that sorts the caller's array itself
InputSortedInPlace(list) == SortByTime(list)

\* the same after the call of src/services/containerProcessor.js: evts.sort
\* sorts in place containers[id], an array the function made with push, and
\* not the caller's array
InputAfterSvc(list) == list

\* a caller adds one more event to the batch it is about to submit
Extend(e) ==
    /\ events' = Append(events, e)
    /\ result' = NotCalled
    /\ detected' = <<>>
    /\ resultSvc' = NotCalled
    /\ detectedSvc' = <<>>
    /\ UNCHANGED served

ReceiveEvent == \E e \in AnyEvent : Len(events) < MaxBatch /\ Extend(e)
ReceiveGrouped == \E e \in GroupedEvent : Len(events) < MaxGrouped /\ Extend(e)
ReceiveTracked == \E e \in TrackedEvent : Len(events) < MaxTracked /\ Extend(e)
ReceiveArrival == \E e \in ArrivalEvent : Len(events) < MaxArrivals /\ Extend(e)
ReceiveRepeated == \E e \in RepeatedEvent : Len(events) < MaxRepeated /\ Extend(e)
ReceiveJourney == \E e \in JourneyEvent : Len(events) < MaxJourney /\ Extend(e)
ReceiveMilestone == \E e \in JourneyEvent : Len(events) < MaxMilestones /\ Extend(e)

\* the batch is submitted to src/containerProcessor.js
Process ==
    /\ result = NotCalled
    /\ \E out \in {processContainerEvents(events)} :
           result' = out.result /\ detected' = out.detected
    /\ events' = InputAfter(events)
    /\ UNCHANGED <<resultSvc, detectedSvc, served>>

\* the batch is submitted to src/services/containerProcessor.js
ProcessSvc ==
    /\ resultSvc = NotCalled
    /\ \E out \in {processContainerEventsSvc(events)} :
           resultSvc' = out.result /\ detectedSvc' = out.detected
    /\ events' = InputAfterSvc(events)
    /\ UNCHANGED <<result, detected, served>>

\* a caller that has the answer for its batch submits the batch again with one
\* more event, to src/containerProcessor.js
Resubmit ==
    /\ result # NotCalled
    /\ Len(events) < MaxJourney
    /\ \E e \in JourneyEvent :
           /\ events' = Append(events, e)
           /\ \E out \in {processContainerEvents(Append(events, e))} :
                  result' = out.result /\ detected' = out.detected
    /\ resultSvc' = NotCalled
    /\ detectedSvc' = <<>>
    /\ UNCHANGED served

\* the same, to src/services/containerProcessor.js
ResubmitSvc ==
    /\ resultSvc # NotCalled
    /\ Len(events) < MaxJourney
    /\ \E e \in JourneyEvent :
           /\ events' = Append(events, e)
           /\ \E out \in {processContainerEventsSvc(Append(events, e))} :
                  resultSvc' = out.result /\ detectedSvc' = out.detected
    /\ result' = NotCalled
    /\ detected' = <<>>
    /\ UNCHANGED served

\* a caller that has the answer for its batch submits the batch, as the first
\* call left it, a second time to the same file
Again ==
    /\ UNCHANGED served
    /\ \/ /\ result # NotCalled
          /\ \E out \in {processContainerEvents(events)} :
                 result' = out.result /\ detected' = out.detected
          /\ events' = InputAfter(events)
          /\ UNCHANGED <<resultSvc, detectedSvc>>
       \/ /\ resultSvc # NotCalled
          /\ \E out \in {processContainerEventsSvc(events)} :
                 resultSvc' = out.result /\ detectedSvc' = out.detected
          /\ events' = InputAfterSvc(events)
          /\ UNCHANGED <<result, detected>>

\* a caller that has the answer for its batch submits the same events in
\* another order, to src/containerProcessor.js or to
\* src/services/containerProcessor.js
Reorder ==
    \E p \in Permutations(1..Len(events)) :
        /\ events' = [k \in 1..Len(events) |-> events[p[k]]]
        /\ events' # events
        /\ UNCHANGED served
        /\ \/ /\ result # NotCalled
              /\ \E out \in {processContainerEvents([k \in 1..Len(events) |-> events[p[k]]])} :
                     result' = out.result /\ detected' = out.detected
              /\ resultSvc' = NotCalled
              /\ detectedSvc' = <<>>
           \/ /\ resultSvc # NotCalled
              /\ \E out \in {processContainerEventsSvc([k \in 1..Len(events) |->
                                                           events[p[k]]])} :
                     resultSvc' = out.result /\ detectedSvc' = out.detected
              /\ result' = NotCalled
              /\ detected' = <<>>

\* The adapters keep nothing between two requests, so a behaviour serves one
\* request: served is what the adapter was given and what it answered.

\* router.post('/process') of src/unnamed/part_002
PostProcess ==
    /\ served.adapter = "none"
    /\ \E body \in EventBodies :
           \E out \in
               {IF body.type # "array"
                THEN Refused(400, [error |-> "Invalid input",
                                   message |-> "Request body must be an array of events"])
                ELSE IF Len(body.value) = 0
                THEN Refused(400, [error |-> "Invalid input",
                                   message |-> "Events array cannot be empty"])
                ELSE Answered(body.value, processContainerEvents(body.value).result,
                              [error |-> "Internal server error", message |-> "TypeError"],
                              NoFields, NoFields)} :
               served' = [adapter |-> "/process", input |-> body] @@ out
    /\ UNCHANGED <<events, result, detected, resultSvc, detectedSvc>>

\* router.post('/process-batch') of src/unnamed/part_002
PostProcessBatch ==
    /\ served.adapter = "none"
    /\ \E body \in ShipmentBodies :
         \E all \in
             {IF body.type = "array"
              THEN Gathered([k \in 1..Len(body.value) |->
                                BatchEvents(body.value[k], "SHIPMENT_" \o ToString(k - 1))])
              ELSE Gathered(<<>>)} :
           \E out \in
               {IF body.type # "array"
                THEN Refused(400, [error |-> "Invalid input",
                                   message |-> "Request body must be an array of shipments"])
                ELSE IF all.threw
                THEN Refused(500, [error |-> "Internal server error",
                                   message |-> "TypeError"])
                ELSE IF Len(all.list) = 0
                THEN Refused(400, [error |-> "Invalid input",
                                   message |-> "No events found in shipments"])
                ELSE Answered(all.list, processContainerEvents(all.list).result,
                              [error |-> "Internal server error", message |-> "TypeError"],
                              NoFields, NoFields)} :
               served' = [adapter |-> "/process-batch", input |-> body] @@ out
    /\ UNCHANGED <<events, result, detected, resultSvc, detectedSvc>>

\* router.post('/process-file') of src/unnamed/part_002; the path is absolute,
\* so resolvedPath is file_path
PostProcessFile ==
    /\ served.adapter = "none"
    /\ \E file \in Files :
         \E all \in
             {IF file.state = "parsed" /\ file.content.type = "array"
              THEN Gathered([k \in 1..Len(file.content.value) |->
                                FileEvents(file.content.value[k])])
              ELSE Gathered(<<>>)} :
           \E out \in
               {IF ~Truthy(file.path) \/ file.path.type # "string"
                THEN Refused(400, [error |-> "Invalid input",
                                   message |-> "file_path is required and must be a string"])
                ELSE IF file.state = "missing"
                THEN Refused(404, [error |-> "File not found",
                                   message |-> "File not found at path: " \o file.path.value])
                ELSE IF file.state = "broken"
                THEN Refused(400, [error |-> "Invalid JSON",
                                   message |-> "Failed to parse JSON file: SyntaxError"])
                ELSE IF file.state = "unreadable"
                THEN Refused(500, [error |-> "File read error",
                                   message |-> "Failed to read file: Error"])
                ELSE IF file.content.type # "array"
                THEN Refused(400, [error |-> "Invalid input",
                                   message |-> "JSON file must contain an array of shipments"])
                ELSE IF Len(file.content.value) = 0
                THEN Refused(400, [error |-> "Invalid input",
                                   message |-> "Shipments array cannot be empty"])
                ELSE IF all.threw
                THEN Refused(500, [error |-> "Internal server error",
                                   message |-> "TypeError"])
                ELSE IF Len(all.list) = 0
                THEN Refused(400, [error |-> "Invalid input",
                                   message |-> "No events found in shipments"])
                ELSE Answered(all.list, processContainerEvents(all.list).result,
                              [error |-> "Internal server error", message |-> "TypeError"],
                              [file_path |-> file.path.value],
                              [file_path |-> file.path.value,
                               shipments_processed |-> Len(file.content.value),
                               total_events |-> Len(all.list)])} :
               served' = [adapter |-> "/process-file", input |-> file] @@ out
    /\ UNCHANGED <<events, result, detected, resultSvc, detectedSvc>>

\* processEvents of src/controllers/containerController.js
processEvents ==
    /\ served.adapter = "none"
    /\ \E body \in EventBodies :
           \E out \in
               {IF body.type # "array" \/ Len(body.value) = 0
                THEN Refused(400, [error |-> "Invalid input",
                                   message |-> "Body must be a non-empty array of events"])
                ELSE Answered(body.value, processContainerEventsSvc(body.value).result,
                              [error |-> "Internal server error"], NoFields, NoFields)} :
               served' = [adapter |-> "processEvents", input |-> body] @@ out
    /\ UNCHANGED <<events, result, detected, resultSvc, detectedSvc>>

\* processBatch of src/controllers/containerController.js
processBatch ==
    /\ served.adapter = "none"
    /\ \E body \in ShipmentBodies :
         \E all \in
             {IF body.type = "array"
              THEN Gathered([k \in 1..Len(body.value) |->
                                BatchEvents(body.value[k], "unknown_" \o ToString(k - 1))])
              ELSE Gathered(<<>>)} :
           \E out \in
               {IF body.type # "array"
                THEN Refused(400, [error |-> "Invalid input",
                                   message |-> "Must be array of shipments"])
                ELSE IF all.threw
                THEN Refused(500, [error |-> "Internal server error"])
                ELSE IF Len(all.list) = 0
                THEN Refused(400, [error |-> "No events found"])
                ELSE Answered(all.list, processContainerEventsSvc(all.list).result,
                              [error |-> "Internal server error"], NoFields, NoFields)} :
               served' = [adapter |-> "processBatch", input |-> body] @@ out
    /\ UNCHANGED <<events, result, detected, resultSvc, detectedSvc>>

\* processFile of src/controllers/containerController.js: a file that cannot
\* be read or parsed throws into the catch block
processFile ==
    /\ served.adapter = "none"
    /\ \E file \in Files :
         \E all \in
             {IF file.state = "parsed" /\ file.content.type = "array"
              THEN Gathered([k \in 1..Len(file.content.value) |->
                                FileEventsSvc(file.content.value[k])])
              ELSE Gathered(<<>>)} :
           \E out \in
               {IF ~Truthy(file.path) \/ file.path.type # "string"
                THEN Refused(400, [error |-> "file_path is required and must be string"])
                ELSE IF file.state = "missing"
                THEN Refused(404, [error |-> "File not found"])
                ELSE IF file.state \in {"broken", "unreadable"}
                THEN Refused(500, [error |-> "Internal server error"])
                ELSE IF file.content.type # "array"
                THEN Refused(400, [error |-> "File must contain array of shipments"])
                ELSE IF all.threw
                THEN Refused(500, [error |-> "Internal server error"])
                ELSE IF Len(all.list) = 0
                THEN Refused(400, [error |-> "No events found in file"])
                ELSE Answered(all.list, processContainerEventsSvc(all.list).result,
                              [error |-> "Internal server error"],
                              [file_path |-> file.path.value],
                              [file_path |-> file.path.value])} :
               served' = [adapter |-> "processFile", input |-> file] @@ out
    /\ UNCHANGED <<events, result, detected, resultSvc, detectedSvc>>

\* src/process-file.js, run with the path as its argument: status is the exit
\* status, body what JSON.stringify(result) writes to stdout, stdout the lines
\* of the banner before it, saved the content of processing_results.json. Of
\* the lines written to stderr the model keeps the report of a failure; the
\* progress notes and the warnings are left out. An uncaught TypeError ends
\* the process with status 1 and its message on stderr.
ProcessFileScript ==
    /\ served.adapter = "none"
    /\ \E file \in Files :
         \E all \in
             {IF file.state = "parsed" /\ file.content.type = "array"
              THEN Gathered([k \in 1..Len(file.content.value) |->
                                FileEvents(file.content.value[k])])
              ELSE Gathered(<<>>)} :
          \E exit \in {[invoked |-> FALSE, passed |-> <<>>, status |-> 1,
                        body |-> Undefined, stdout |-> <<>>]} :
           \E out \in
               {IF ~Truthy(file.path)
                THEN [exit EXCEPT !.stdout = <<"Usage: node process-file.js <file_path>">>]
                     @@ [stderr |-> <<"Error: File path is required">>]
                ELSE IF file.state = "missing"
                THEN exit @@ [stderr |-> <<"Error: File not found at path: "
                                           \o file.path.value>>]
                ELSE IF file.state = "broken"
                THEN exit @@ [stderr |-> <<"Error: Invalid JSON file: SyntaxError">>]
                ELSE IF file.state = "unreadable"
                THEN exit @@ [stderr |-> <<"Error: Failed to read file: Error">>]
                ELSE IF file.content.type # "array"
                THEN exit @@ [stderr |->
                                <<"Error: JSON file must contain an array of shipments">>]
                ELSE IF Len(file.content.value) = 0
                THEN exit @@ [stderr |-> <<"Error: Shipments array is empty">>]
                ELSE IF all.threw
                THEN exit @@ [stderr |-> <<"TypeError">>]
                ELSE IF Len(all.list) = 0
                THEN exit @@ [stderr |-> <<"Error: No events found in shipments">>]
                ELSE ScriptOutput(file, all.list, processContainerEvents(all.list).result)} :
               served' = [adapter |-> "process-file.js", input |-> file] @@ out
    /\ UNCHANGED <<events, result, detected, resultSvc, detectedSvc>>

SpecAdapters ==
    Init /\ [][PostProcess \/ PostProcessBatch \/ PostProcessFile \/ processEvents
               \/ processBatch \/ processFile \/ ProcessFileScript]_vars

Next == ReceiveEvent \/ Process \/ ProcessSvc
Spec == Init /\ [][Next]_vars

NextGrouped == ReceiveGrouped \/ Process \/ ProcessSvc
SpecGrouped == Init /\ [][NextGrouped]_vars

NextTracked == ReceiveTracked \/ Process \/ ProcessSvc
SpecTracked == Init /\ [][NextTracked]_vars

NextArrival == ReceiveArrival \/ Process \/ ProcessSvc
SpecArrival == Init /\ [][NextArrival]_vars

SpecReordered == Init /\ [][ReceiveEvent \/ Process \/ ProcessSvc \/ Reorder]_vars

SpecCalledAgain == Init /\ [][ReceiveGrouped \/ Process \/ ProcessSvc \/ Again]_vars

SpecRepeated == Init /\ [][ReceiveRepeated \/ Process \/ ProcessSvc]_vars

SpecJourney ==
    Init /\ [][ReceiveJourney \/ Process \/ ProcessSvc \/ Resubmit \/ ResubmitSvc]_vars

SpecMilestones == Init /\ [][ReceiveMilestone \/ Process \/ ProcessSvc]_vars

---------------------------------------------------------------------------
(* What a caller may rely on: the validation rules an event has to meet     *)

\* an event meets every validation rule: the three text fields are non-blank
\* strings, the type is one of the catalog, the timestamp is a UTC date-time,
\* and metadata is asked for only by a type whose list of fields is not empty
MeetsTheRules(e) ==
    /\ e.container_id.type = "string" /\ Trim(e.container_id.value) # ""
    /\ e.event_type.type = "string" /\ e.event_type.value \in DOMAIN REQUIRED_METADATA
    /\ e.timestamp.type = "string"
    /\ ~DateParse(e.timestamp).nan
    /\ Includes(e.timestamp.value, "T") /\ EndsWith(e.timestamp.value, "Z")
    /\ e.location.type = "string" /\ Trim(e.location.value) # ""
    /\ LET fields == REQUIRED_METADATA[e.event_type.value].value
       IN  \/ fields = <<>>
           \/ /\ e.metadata.type = "object"
              /\ \A k \in 1..Len(fields) : fields[k] \in DOMAIN e.metadata.value

Malformed == {i \in 1..Len(events) : ~MeetsTheRules(events[i])}

\* the two deployed processors, each with the value it returned
Returned == {result, resultSvc} \ {NotCalled}

\* C1: a batch with a malformed event is answered by the rejection object
\* {error: "Validation failed", validation_errors: non-empty list} and a batch
\* without one by a list of summaries, whatever the batch
AllOrNothing(r) ==
    IF Malformed # {}
    THEN /\ r.kind = "rejection"
         /\ r.error = "Validation failed"
         /\ Len(r.validation_errors) > 0
    ELSE r.kind = "summaries"

\* C1: every batch is either rejected as a whole, if any event is malformed,
\* or summarised as a whole, if none is
C1_RejectedOrSummarised == \A r \in Returned : AllOrNothing(r)

\* the zero-based event index a validation message opens with ("Event 3: ..."),
\* or -1 if the message does not open with one
ColonAt(m, i) ==
    IF \E k \in i..Len(m) : CharAt(m, k) = ":"
    THEN CHOOSE k \in i..Len(m) :
             CharAt(m, k) = ":" /\ \A j \in i..(k - 1) : CharAt(m, j) # ":"
    ELSE 0

MessageIndex(m) ==
    LET colon == ColonAt(m, 7)
        digits == SubSeq(m, 7, colon - 1)
    IN  IF /\ Len(m) > 7
           /\ SubSeq(m, 1, 6) = "Event "
           /\ colon > 7
           /\ AllDigits(digits)
           /\ SubSeq(m, colon, colon + 1) = ": "
        THEN DecimalValue(digits)
        ELSE 0 - 1

\* C2: the messages of a call: those of the rejection, none if there is none
MessagesOf(r) == IF r.kind = "rejection" THEN r.validation_errors ELSE <<>>

EveryEventChecked(r) ==
    LET messages == MessagesOf(r)
        named == {MessageIndex(messages[k]) : k \in 1..Len(messages)}
    IN  /\ \A i \in 1..Len(events) : (i \in Malformed) <=> (i - 1 \in named)
        /\ named \subseteq 0..(Len(events) - 1)
        /\ \A k \in 1..(Len(messages) - 1) :
               MessageIndex(messages[k]) <= MessageIndex(messages[k + 1])

\* C2: validation_errors holds a message for every malformed event of the
\* batch and none for any other event; each message names the zero-based
\* index of its event and the messages are in non-decreasing index order
C2_EveryEventChecked == \A r \in Returned : EveryEventChecked(r)

\* the types whose list of required metadata fields is empty
NoMetadataTypes ==
    {"customs_inspection", "documentation_hold", "road_checkpoint", "lcl_pickup",
     "lcl_consolidation", "lcl_deconsolidation", "lcl_delivery",
     "lcl_damage_inspection", "transshipment_loading"}

\* an event of such a type that carries no metadata and is otherwise as the
\* rules ask
NeedsNoMetadata(e) ==
    /\ e.event_type.type = "string" /\ e.event_type.value \in NoMetadataTypes
    /\ e.metadata = Undefined
    /\ MeetsTheRules(e)

\* C3: a batch of events of the types without required metadata, none of them
\* carrying metadata and each otherwise well-formed, raises no validation
\* error and is summarised, by both processors
C3_MetadataOptional ==
    (Len(events) > 0 /\ \A i \in 1..Len(events) : NeedsNoMetadata(events[i]))
        => \A r \in Returned : r.kind = "summaries" /\ MessagesOf(r) = <<>>

\* C4: whatever the batch, the call returns: a rejection or a list of
\* summaries, never an exception
C4_AlwaysReturns == \A r \in Returned : r.kind \in {"rejection", "summaries"}

---------------------------------------------------------------------------
(* What a caller may rely on: grouping                                      *)

\* the container ids of the batch and where each appears first
ContainerIds == {events[i].container_id : i \in 1..Len(events)}
FirstAppearance(id) ==
    CHOOSE i \in 1..Len(events) :
        events[i].container_id = id /\ \A j \in 1..(i - 1) : events[j].container_id # id

\* the places of the summaries of a container in a list of summaries
PlacesOf(summaries, id) == {k \in 1..Len(summaries) : summaries[k].container_id = id}

InFirstAppearanceOrder(r) ==
    r.kind = "summaries" =>
        \A a, b \in ContainerIds :
            FirstAppearance(a) < FirstAppearance(b) =>
                \A k \in PlacesOf(r.summaries, a), l \in PlacesOf(r.summaries, b) : k < l

\* C5: in a returned list of summaries, the summary of a container whose first
\* event comes earlier in the batch stands before the summary of a container
\* whose first event comes later
C5_FirstAppearanceOrder == \A r \in Returned : InFirstAppearanceOrder(r)

\* the events of a container, as the identifying fields of a timeline entry
EntryOf(e) == [event_type |-> e.event_type, timestamp |-> e.timestamp, location |-> e.location]
SameEntry(item, e) ==
    /\ item.event_type = e.event_type
    /\ item.timestamp = e.timestamp
    /\ item.location = e.location

\* how often an entry occurs in a timeline and an event with that entry among
\* the events of container id
TimesInTimeline(timeline, e) == Cardinality({k \in 1..Len(timeline) : SameEntry(timeline[k], e)})
TimesInBatch(id, e) ==
    Cardinality({i \in 1..Len(events) :
                    events[i].container_id = id /\ EntryOf(events[i]) = EntryOf(e)})

RECURSIVE TimelineLengths(_, _)
TimelineLengths(summaries, k) ==
    IF k = 0 THEN 0
    ELSE Len(summaries[k].timeline) + TimelineLengths(summaries, k - 1)

IsPartition(r) ==
    /\ r.kind = "summaries"
    /\ \A id \in ContainerIds : Cardinality(PlacesOf(r.summaries, id)) = 1
    /\ \A k \in 1..Len(r.summaries) : r.summaries[k].container_id \in ContainerIds
    /\ \A k \in 1..Len(r.summaries) :
           LET id == r.summaries[k].container_id
               timeline == r.summaries[k].timeline
           IN  /\ \A i \in 1..Len(events) :
                      TimesInTimeline(timeline, events[i]) =
                          TimesInBatch(id, events[i])
    /\ TimelineLengths(r.summaries, Len(r.summaries)) = Len(events)

\* C6: a batch of well-formed events is answered by exactly one summary for
\* each container id of the batch, no id twice; every event is in the timeline
\* of the summary of its own container and of no other, and the lengths of the
\* timelines add up to the number of events
C6_GroupingIsPartition ==
    (\A i \in 1..Len(events) : MeetsTheRules(events[i]))
        => \A r \in Returned : IsPartition(r)

---------------------------------------------------------------------------
(* What a caller may rely on: anomalies                                     *)

\* the events of a container in chronological order, ties in batch order
EventsOf(id) ==
    LET Mine(e) == e.container_id = id
    IN  SelectSeq(events, Mine)
Chronological(id) == SortByTime(EventsOf(id))

\* the anomalies of one kind among those detected for a container
OfKind(anomalies, kind) == {k \in 1..Len(anomalies) : anomalies[k].type = kind}

Contains(text, part) ==
    \E i \in 1..(Len(text) - Len(part) + 1) : SubSeq(text, i, i + Len(part) - 1) = part

\* the message says that type f follows type e
Names(message, e, f) ==
    \/ Contains(message, f \o " follows " \o e \o " ")
    \/ Contains(message, "'" \o f \o "' follows '" \o e \o "'")

\* the out_of_sequence anomalies that can stand for the pair (i, i + 1) of a
\* chronological list: timestamped at the later event and naming both types
ForPair(anomalies, sorted, i) ==
    {k \in OfKind(anomalies, "out_of_sequence") :
        /\ anomalies[k].timestamp = sorted[i + 1].timestamp
        /\ Names(anomalies[k].message, sorted[i].event_type.value,
                 sorted[i + 1].event_type.value)}

\* the pairs of the list that look the same as the pair (i, i + 1)
PairsLike(sorted, i) ==
    {j \in 1..(Len(sorted) - 1) :
        /\ sorted[j].event_type = sorted[i].event_type
        /\ sorted[j + 1].event_type = sorted[i + 1].event_type
        /\ sorted[j + 1].timestamp = sorted[i + 1].timestamp}

\* the successor set a table gives a type: none if the type is not a key
HasSuccessors(table, type) == type \in DOMAIN table /\ table[type].value # <<>>
IsSuccessor(table, type, next) ==
    type \in DOMAIN table /\ ListIncludes(table[type].value, next)

Permissive(table, found) ==
    \A d \in 1..Len(found) :
        LET sorted == Chronological(found[d].container_id)
        IN  \A i \in 1..(Len(sorted) - 1) :
                ~HasSuccessors(table, sorted[i].event_type.value)
                    => ForPair(found[d].anomalies, sorted, i) = {}

\* C7: after an event whose type is not in the successor table, or has the
\* empty successor set, any event may follow: no out_of_sequence anomaly is
\* raised for the pair, in either processor
C7_PermissiveDefault ==
    /\ Permissive(sequenceRules, detected)
    /\ Permissive(sequenceRulesSvc, detectedSvc)

Sequenced(table, found) ==
    \A d \in 1..Len(found) :
        LET sorted == Chronological(found[d].container_id)
        IN  \A i \in 1..(Len(sorted) - 1) :
                LET e == sorted[i].event_type.value
                    f == sorted[i + 1].event_type.value
                    raised == Cardinality(ForPair(found[d].anomalies, sorted, i))
                IN  /\ (HasSuccessors(table, e) /\ ~IsSuccessor(table, e, f))
                        => raised = Cardinality(PairsLike(sorted, i))
                    /\ IsSuccessor(table, e, f) => raised = 0

\* C8: for each pair of chronologically adjacent events (e, f) of a container
\* where the type of e has a non-empty successor set that lacks the type of f,
\* exactly one out_of_sequence anomaly is raised, timestamped at f and naming
\* both types; none is raised for a pair whose successor is permitted
C8_OutOfSequence ==
    /\ Sequenced(sequenceRules, detected)
    /\ Sequenced(sequenceRulesSvc, detectedSvc)

FlagsClearanceThenInspection(found) ==
    \E d \in 1..Len(found) :
        LET sorted == Chronological(found[d].container_id)
        IN  \E i \in 1..(Len(sorted) - 1) :
                /\ sorted[i].event_type = Str("customs_clearance")
                /\ sorted[i + 1].event_type = Str("lcl_damage_inspection")
                /\ Cardinality(ForPair(found[d].anomalies, sorted, i)) = 1

\* customs_clearance directly followed by lcl_damage_inspection has been
\* flagged once by both processors
C8_Witness ==
    FlagsClearanceThenInspection(detected) /\ FlagsClearanceThenInspection(detectedSvc)

\* seconds from instant a to instant b, both as written in an event
SecondsFrom(a, b) == DateParse(b).time - DateParse(a).time

\* a number of seconds in whole minutes: the nearest minute, a half upwards
WholeMinutes(seconds) == (seconds + 30) \div 60

\* the anomalies of a kind that are timestamped at an instant
StampedAt(anomalies, kind, timestamp) ==
    {k \in OfKind(anomalies, kind) : anomalies[k].timestamp = timestamp}

\* a port_arrival carrying a readable metadata.expected_arrival that it
\* misses by more than 120 whole minutes
ArrivesLate(e) ==
    /\ e.event_type = Str("port_arrival")
    /\ e.metadata.type = "object"
    /\ "expected_arrival" \in DOMAIN e.metadata.value
    /\ ~DateParse(e.metadata.value.expected_arrival).nan
    /\ WholeMinutes(SecondsFrom(e.metadata.value.expected_arrival, e.timestamp)) > 120

LateArrivals(found) ==
    \A d \in 1..Len(found) :
        LET sorted == Chronological(found[d].container_id)
            anomalies == found[d].anomalies
        IN  /\ \A i \in 1..Len(sorted) :
                   Cardinality(StampedAt(anomalies, "late_arrival", sorted[i].timestamp)) =
                       Cardinality({j \in 1..Len(sorted) :
                                       /\ sorted[j].timestamp = sorted[i].timestamp
                                       /\ ArrivesLate(sorted[j])})
            /\ \A k \in OfKind(anomalies, "late_arrival") :
                   \E i \in 1..Len(sorted) : anomalies[k].timestamp = sorted[i].timestamp

\* C9: a late_arrival anomaly timestamped at an event is raised exactly when
\* the event is a port_arrival with a metadata.expected_arrival and its
\* timestamp is more than 120 whole minutes after it; 120 minutes or less, an
\* early arrival, and an absent or unreadable expected_arrival raise none
C9_LateArrival == LateArrivals(detected) /\ LateArrivals(detectedSvc)

\* an arrival 120 minutes and 30 seconds after its expected time
HalfMinuteOver(e) ==
    /\ e.event_type = Str("port_arrival")
    /\ e.metadata.type = "object"
    /\ "expected_arrival" \in DOMAIN e.metadata.value
    /\ ~DateParse(e.metadata.value.expected_arrival).nan
    /\ SecondsFrom(e.metadata.value.expected_arrival, e.timestamp) = 120 * 60 + 30

FlagsHalfMinuteOver(found) ==
    \E d \in 1..Len(found) :
        \E i \in 1..Len(events) :
            /\ HalfMinuteOver(events[i])
            /\ StampedAt(found[d].anomalies, "late_arrival", events[i].timestamp) # {}

\* both processors have flagged an arrival 120 minutes and 30 seconds late
C9_Witness == FlagsHalfMinuteOver(detected) /\ FlagsHalfMinuteOver(detectedSvc)

UnusualGaps(found) ==
    \A d \in 1..Len(found) :
        LET sorted == Chronological(found[d].container_id)
            anomalies == found[d].anomalies
        IN  /\ \A i \in 1..Len(sorted) :
                   Cardinality(StampedAt(anomalies, "unusual_gap", sorted[i].timestamp)) =
                       Cardinality({j \in 2..Len(sorted) :
                                       /\ sorted[j].timestamp = sorted[i].timestamp
                                       /\ SecondsFrom(sorted[j - 1].timestamp,
                                                      sorted[j].timestamp) > 24 * 60 * 60})
            /\ \A k \in OfKind(anomalies, "unusual_gap") :
                   \E i \in 2..Len(sorted) : anomalies[k].timestamp = sorted[i].timestamp

\* C10: for every event of a container but the chronologically first, an
\* unusual_gap anomaly timestamped at the event is raised exactly when it is
\* more than 24 hours after the event before it; exactly 24 hours raises none
\* and the first event never raises one
C10_UnusualGap == UnusualGaps(detected) /\ UnusualGaps(detectedSvc)

FlagsOneSecondOver(found) ==
    \E d \in 1..Len(found) :
        LET sorted == Chronological(found[d].container_id)
        IN  \E i \in 2..Len(sorted) :
                /\ SecondsFrom(sorted[i - 1].timestamp, sorted[i].timestamp)
                       = 24 * 60 * 60 + 1
                /\ StampedAt(found[d].anomalies, "unusual_gap", sorted[i].timestamp) # {}

\* both processors have flagged an event 24 hours and 1 second after the one
\* before it
C10_Witness == FlagsOneSecondOver(detected) /\ FlagsOneSecondOver(detectedSvc)

\* the first event behind sorted[i] that has its type, 0 when there is none
NextOfType(sorted, i) ==
    IF \E j \in (i + 1)..Len(sorted) : sorted[j].event_type = sorted[i].event_type
    THEN CHOOSE j \in (i + 1)..Len(sorted) :
             /\ sorted[j].event_type = sorted[i].event_type
             /\ \A m \in (i + 1)..(j - 1) : sorted[m].event_type # sorted[i].event_type
    ELSE 0

\* the events whose next event of the same type is at most one hour later
Repeated(sorted) ==
    {i \in 1..Len(sorted) :
        /\ NextOfType(sorted, i) # 0
        /\ SecondsFrom(sorted[i].timestamp, sorted[NextOfType(sorted, i)].timestamp)
               <= 60 * 60}

\* the duplicate_event anomalies about a type that are timestamped at an instant
DuplicatesAt(anomalies, type, timestamp) ==
    {k \in StampedAt(anomalies, "duplicate_event", timestamp) :
        Contains(anomalies[k].message, "Duplicate " \o type \o " ")}

DuplicateEvents(found) ==
    \A d \in 1..Len(found) :
        LET sorted == Chronological(found[d].container_id)
            anomalies == found[d].anomalies
        IN  /\ \A j \in 1..Len(sorted) :
                   Cardinality(DuplicatesAt(anomalies, sorted[j].event_type.value,
                                            sorted[j].timestamp)) =
                       Cardinality({i \in Repeated(sorted) :
                                       /\ sorted[i].event_type = sorted[j].event_type
                                       /\ sorted[NextOfType(sorted, i)].timestamp =
                                              sorted[j].timestamp})
            /\ Cardinality(OfKind(anomalies, "duplicate_event")) =
                   Cardinality(Repeated(sorted))

FlagsExactlyOneHour(found) ==
    \E d \in 1..Len(found) :
        LET sorted == Chronological(found[d].container_id)
        IN  \E i \in 1..Len(sorted) :
                /\ NextOfType(sorted, i) # 0
                /\ SecondsFrom(sorted[i].timestamp,
                               sorted[NextOfType(sorted, i)].timestamp) = 60 * 60
                /\ Len(sorted) = 3
                /\ \A j \in 1..Len(sorted) : sorted[j].event_type = sorted[i].event_type
                /\ DuplicatesAt(found[d].anomalies, sorted[i].event_type.value,
                                sorted[NextOfType(sorted, i)].timestamp) # {}

---------------------------------------------------------------------------
(* What a caller may rely on: the summary of a container                    *)

\* journey_progress is a whole number of percent in every summary returned
Bounded(r) ==
    r.kind = "summaries"
        => \A k \in 1..Len(r.summaries) : r.summaries[k].journey_progress \in 0..100

\* the last event of a batch is not earlier than any other event of its container
LastIsLatest(batch) ==
    \A i \in 1..Len(batch) :
        batch[i].container_id = batch[Len(batch)].container_id
            => SecondsFrom(batch[i].timestamp, batch[Len(batch)].timestamp) >= 0

\* batch after is batch before with one more event, the latest of its container,
\* and both were summarised: the progress of that container has not dropped
Grows(before, after, r, r2) ==
    (/\ r.kind = "summaries"
     /\ r2.kind = "summaries"
     /\ Len(after) = Len(before) + 1
     /\ SubSeq(after, 1, Len(before)) = before
     /\ LastIsLatest(after))
        => \A k \in 1..Len(r.summaries) :
               \A m \in 1..Len(r2.summaries) :
                   (/\ r.summaries[k].container_id = after[Len(after)].container_id
                    /\ r2.summaries[m].container_id = after[Len(after)].container_id)
                       => r2.summaries[m].journey_progress
                              >= r.summaries[k].journey_progress

\* C12: journey_progress is a whole number from 0 to 100 in every summary, and
\* submitting a batch again with one more valid event that is not earlier than
\* any event of its container never lowers the journey_progress of the container
C12_ProgressMonotone ==
    [][/\ Bounded(result') /\ Bounded(resultSvc')
       /\ Grows(events, events', result, result')
       /\ Grows(events, events', resultSvc, resultSvc')]_vars

\* a port_arrival followed by a customs_clearance that is not earlier has been
\* summarised by both processors with a journey_progress of 40
C12_Witness ==
    /\ Len(events) = 2
    /\ events[1].event_type = Str("port_arrival")
    /\ events[2].event_type = Str("customs_clearance")
    /\ LastIsLatest(events)
    /\ \A r \in {result, resultSvc} :
           r.kind = "summaries" /\ r.summaries[1].journey_progress = 40

\* the place in the batch of the chronologically last event of container id:
\* of the events at the latest instant, the one latest in the batch
Latest(id) ==
    CHOOSE i \in 1..Len(events) :
        /\ events[i].container_id = id
        /\ \A j \in 1..Len(events) :
               events[j].container_id = id
                   => \/ SecondsFrom(events[j].timestamp, events[i].timestamp) > 0
                      \/ /\ SecondsFrom(events[j].timestamp, events[i].timestamp) = 0
                         /\ j <= i

\* the label a status table gives a type, otherwise the table's default label
Label(table, default, type) == IF type \in DOMAIN table THEN table[type] ELSE default

ShowsLastEvent(r, table, default) ==
    r.kind = "summaries"
        => \A k \in 1..Len(r.summaries) :
               LET s == r.summaries[k]
                   e == events[Latest(s.container_id)]
               IN  /\ s.current_location = e.location
                   /\ s.last_event_time = e.timestamp
                   /\ s.current_status = Label(table, default, e.event_type.value)
                   /\ SameEntry(s.timeline[Len(s.timeline)], e)
                   /\ e.event_type = Str("port_departure")
                          => s.current_status \in {"departed", "Departed Port"}

\* C13: current_location and last_event_time of a summary are the location and
\* timestamp of the chronologically last event of the container (of events at
\* the same instant, the one latest in the batch), current_status is the label
\* of that event's type in the processor's status table, the departed label
\* for a port_departure, and that event is the last entry of the timeline
C13_LastEvent ==
    /\ ShowsLastEvent(result, statusMap, "unknown")
    /\ ShowsLastEvent(resultSvc, statusMapSvc, "In Progress")

\* a container whose last two events are at the same instant, the later of
\* them in the batch a port_departure, is summarised as departed, at the place
\* of the departure, by both processors
C13_Witness ==
    /\ Len(events) >= 2
    /\ events[Len(events)].event_type = Str("port_departure")
    /\ events[Len(events) - 1].event_type = Str("in_transit")
    /\ events[Len(events) - 1].timestamp = events[Len(events)].timestamp
    /\ Latest(Str("A")) = Len(events)
    /\ result.kind = "summaries" /\ resultSvc.kind = "summaries"
    /\ result.summaries[1].current_status = "departed"
    /\ resultSvc.summaries[1].current_status = "Departed Port"
    /\ result.summaries[1].current_location = Str("Port of Singapore")
    /\ resultSvc.summaries[1].current_location = Str("Port of Singapore")

\* a port_arrival that carries a metadata.expected_arrival, both its timestamp
\* and the expected time readable as instants
HasDelay(e) ==
    /\ e.event_type = Str("port_arrival")
    /\ e.metadata.type = "object"
    /\ "expected_arrival" \in DOMAIN e.metadata.value
    /\ ~DateParse(e.metadata.value.expected_arrival).nan
    /\ ~DateParse(e.timestamp).nan

\* the timeline entry an event is to have
EntryWithDelay(e) ==
    IF HasDelay(e)
    THEN [event_type |-> e.event_type, timestamp |-> e.timestamp, location |-> e.location,
          delay_minutes |->
              WholeMinutes(SecondsFrom(e.metadata.value.expected_arrival, e.timestamp))]
    ELSE EntryOf(e)

\* every event of a container has its entry in the timeline, as often as the
\* batch has events with that entry, and the timeline has nothing else
AnnotatesDelay(r) ==
    r.kind = "summaries"
        => \A k \in 1..Len(r.summaries) :
               LET timeline == r.summaries[k].timeline
                   mine == EventsOf(r.summaries[k].container_id)
               IN  /\ Len(timeline) = Len(mine)
                   /\ \A i \in 1..Len(mine) :
                          Cardinality({j \in 1..Len(timeline) :
                                          timeline[j] = EntryWithDelay(mine[i])}) =
                              Cardinality({j \in 1..Len(mine) :
                                              EntryWithDelay(mine[j]) = EntryWithDelay(mine[i])})

\* C14: a timeline entry carries delay_minutes exactly when its event is a
\* port_arrival with a metadata.expected_arrival and both instants are
\* readable; the value is timestamp minus expected_arrival in whole minutes,
\* negative for an early arrival; no entry of another event carries it
C14_DelayAnnotation == \A r \in Returned : AnnotatesDelay(r)

ShowsDelays(r) ==
    /\ r.kind = "summaries"
    /\ Len(r.summaries) = 1
    /\ \E j \in 1..Len(r.summaries[1].timeline) :
           /\ "delay_minutes" \in DOMAIN r.summaries[1].timeline[j]
           /\ r.summaries[1].timeline[j].delay_minutes = 0 - 60
    /\ \E j \in 1..Len(r.summaries[1].timeline) :
           /\ r.summaries[1].timeline[j].event_type = Str("customs_clearance")
           /\ "delay_minutes" \notin DOMAIN r.summaries[1].timeline[j]

\* both processors have returned a timeline with an arrival an hour early,
\* annotated with -60, and a customs_clearance that carries an
\* expected_arrival and is not annotated
C14_Witness == ShowsDelays(result) /\ ShowsDelays(resultSvc)

\* ---------------------------------------------------------------------------
\* What a caller may rely on: the adapters
\* ---------------------------------------------------------------------------

\* the top-level input of the request served: the body of /process and
\* /process-batch, the parsed content of the file for the file adapters
HasTopLevel ==
    /\ served.adapter # "none"
    /\ "state" \in DOMAIN served.input => served.input.state = "parsed"
TopLevel ==
    IF "state" \in DOMAIN served.input THEN served.input.content ELSE served.input
ReadsFile == served.adapter \in {"/process-file", "processFile", "process-file.js"}

\* a non-array or empty top-level input is turned down, the core not called
RejectsBeforeCore ==
    (HasTopLevel /\ (TopLevel.type # "array" \/ Len(TopLevel.value) = 0))
        => ~served.invoked /\ served.status \notin {0, 200}

CoreRejected == served.adapter # "none" /\ served.invoked
                /\ served.returned.kind = "rejection"
CoreSucceeded == served.adapter # "none" /\ served.invoked
                 /\ served.returned.kind = "summaries"
RejectionBody ==
    [error |-> served.returned.error,
     validation_errors |-> served.returned.validation_errors]

\* the answer is the core's rejection, with file_path added by a file adapter
ForwardsRejection ==
    /\ served.status \notin {0, 200}
    /\ \/ served.body = Obj(RejectionBody)
       \/ ReadsFile /\ served.body = Obj(RejectionBody @@
                                             [file_path |-> served.input.path.value])

\* the answer carries success = true, the number of summaries and the summaries
WrapsSummaries ==
    /\ served.body.type = "object"
    /\ {"success", "containers_processed", "results"} \subseteq DOMAIN served.body.value
    /\ served.body.value.success = TRUE
    /\ served.body.value.containers_processed = Len(served.returned.summaries)
    /\ served.body.value.results = served.returned.summaries

\* C15 as stated: every adapter, the script included, rejects a non-array and
\* an empty top-level input before the core is invoked, forwards the core's
\* rejection body unchanged (a file adapter may add file_path), and on success
\* wraps the summaries with success = true and containers_processed equal to
\* the number of summaries.
C15_EveryAdapterWraps ==
    /\ RejectsBeforeCore
    /\ CoreRejected => ForwardsRejection
    /\ CoreSucceeded => WrapsSummaries

\* what the script does instead: exit status 1 and the validation errors on
\* stderr; exit status 0, the summaries themselves on stdout, and their
\* number in the banner
ScriptReportsRejection ==
    /\ served.status = 1
    /\ served.body = Undefined
    /\ served.stderr = <<"Validation Errors:">>
                        \o [k \in 1..Len(served.returned.validation_errors) |->
                               "  - " \o served.returned.validation_errors[k]]
ScriptPrintsSummaries ==
    /\ served.status = 0
    /\ served.body = List(served.returned.summaries)
    /\ \E k \in 1..Len(served.stdout) :
           served.stdout[k] = "Containers Processed: "
                              \o ToString(Len(served.returned.summaries))

\* C15, amended: every adapter rejects a non-array and an empty top-level
\* input before the core is invoked. The six HTTP adapters forward the core's
\* rejection body unchanged (a file adapter may add file_path) and on success
\* wrap the summaries with success = true and containers_processed equal to
\* the number of summaries. The script exits with status 1 and prints each
\* validation error on stderr when the core rejects, and on success prints the
\* list of summaries itself, unwrapped, with their number in its banner.
C15_AdaptersAnswer ==
    /\ RejectsBeforeCore
    /\ CoreRejected =>
          IF served.adapter = "process-file.js" THEN ScriptReportsRejection
          ELSE ForwardsRejection
    /\ CoreSucceeded =>
          IF served.adapter = "process-file.js" THEN ScriptPrintsSummaries
          ELSE WrapsSummaries

\* processFile forwarded a rejection of the core together with the file path
C15_Witness ==
    /\ served.adapter = "processFile"
    /\ CoreRejected
    /\ served.status = 400
    /\ served.body.value.file_path = "/data/shipments.json"
    /\ Len(served.body.value.validation_errors) > 0

\* the embedded events of a shipment, each stamped with the container_id the
\* shipment carries (undefined if it carries none)
Stamped(shipment) ==
    IF Lookup(shipment.value, "events").type # "array" THEN <<>>
    ELSE [j \in 1..Len(shipment.value.events.value) |->
            [shipment.value.events.value[j]
                EXCEPT !.container_id = Lookup(shipment.value, "container_id")]]
AllStamped ==
    Flatten([k \in 1..Len(TopLevel.value) |-> Stamped(TopLevel.value[k])],
            Len(TopLevel.value))
Flattens == served.adapter \in {"/process-batch", "processBatch", "/process-file",
                                "processFile", "process-file.js"}

\* C16: when a batch, file or script adapter is given an array of shipment
\* objects with at least one embedded event, the list passed to the core is
\* every embedded event, in shipment order then event order, each with exactly
\* its shipment's container_id; none is dropped and no identifier is made up.
C16_Flattening ==
    (/\ Flattens /\ HasTopLevel /\ TopLevel.type = "array"
     /\ \A k \in 1..Len(TopLevel.value) : TopLevel.value[k].type = "object"
     /\ Len(AllStamped) > 0)
        => served.invoked /\ served.passed = AllStamped

\* ---------------------------------------------------------------------------
\* What a caller may rely on: progress, timeline and anomaly order
\* ---------------------------------------------------------------------------

\* the pointer k after walking timeline[j..]: it advances exactly when the
\* entry's type is milestone k and that type is not among those consumed
RECURSIVE GuardedPointer(_, _, _, _)
GuardedPointer(timeline, j, k, consumed) ==
    IF j > Len(timeline) THEN k
    ELSE IF /\ k < 5
            /\ timeline[j].event_type.value
                 = <<"port_arrival", "customs_clearance", "port_departure",
                     "in_transit", "port_arrival">>[k + 1]
            /\ timeline[j].event_type.value \notin consumed
         THEN GuardedPointer(timeline, j + 1, k + 1,
                             consumed \cup {timeline[j].event_type.value})
    ELSE GuardedPointer(timeline, j + 1, k, consumed)

ScoresGuardedWalk(r) ==
    (r.kind = "summaries" /\ Len(r.summaries) = 1)
        => r.summaries[1].journey_progress
             = 20 * GuardedPointer(r.summaries[1].timeline, 1, 0, {})

\* C17: in both implementations journey_progress is round(100 * k / 5), k the
\* pointer of the milestone walk over the sorted events that advances exactly
\* when the event's type is milestone k and has not been consumed before; a
\* lone port_arrival scores 20.
C17_GuardedMilestoneWalk == ScoresGuardedWalk(result) /\ ScoresGuardedWalk(resultSvc)

\* the place of events[i] in chronological order with ties in batch order:
\* behind every event that is earlier, and every event of its time before it
Position(i) ==
    1 + Cardinality({j \in 1..Len(events) : Later(events[i], events[j])})
      + Cardinality({j \in 1..(i - 1) : /\ ~Later(events[i], events[j])
                                        /\ ~Later(events[j], events[i])})

\* the out_of_sequence anomalies the rule of either file gives for the
\* consecutive entries of a timeline
TimelinePairs(timeline) ==
    Flatten([j \in 1..(Len(timeline) - 1) |->
               IF OutOfSequence(timeline[j].event_type, timeline[j + 1].event_type)
               THEN <<[type |-> "out_of_sequence",
                       message |-> "Out of sequence: "
                                     \o TemplateText(timeline[j + 1].event_type)
                                     \o " follows " \o TemplateText(timeline[j].event_type)
                                     \o " unexpectedly"]>>
               ELSE <<>>],
            Len(timeline) - 1)
TimelinePairsSvc(timeline) ==
    Flatten([j \in 1..(Len(timeline) - 1) |->
               IF OutOfSequenceSvc(timeline[j].event_type, timeline[j + 1].event_type)
               THEN <<[type |-> "out_of_sequence",
                       message |-> "Unexpected sequence: '"
                                     \o TemplateText(timeline[j + 1].event_type)
                                     \o "' follows '"
                                     \o TemplateText(timeline[j].event_type) \o "'"]>>
               ELSE <<>>],
            Len(timeline) - 1)
IsOutOfSequence(anomaly) == anomaly.type = "out_of_sequence"

\* summary is the summary of the events received: its timeline is in time
\* order, every event sits at its place, and the sequence anomalies are those
\* of the timeline's consecutive entries, given as pairs
StableTimeline(summary, pairs) ==
    /\ Len(summary.timeline) = Len(events)
    /\ \A j \in 1..(Len(summary.timeline) - 1) :
           ~Later(summary.timeline[j], summary.timeline[j + 1])
    /\ \A i \in 1..Len(events) :
           /\ summary.timeline[Position(i)].event_type = events[i].event_type
           /\ summary.timeline[Position(i)].timestamp = events[i].timestamp
           /\ summary.timeline[Position(i)].location = events[i].location
    /\ SelectSeq(summary.anomalies, IsOutOfSequence) = pairs

\* C18: the timeline of a summary is in chronological order, the timestamps
\* of consecutive entries never decreasing, and the sort is stable: events of
\* one container with equal timestamps keep their batch order; the anomaly
\* detector evaluates its rules over this same order.
C18_TimelineStable ==
    /\ (result.kind = "summaries" /\ Len(events) > 0)
          => StableTimeline(result.summaries[1],
                            TimelinePairs(result.summaries[1].timeline))
    /\ (resultSvc.kind = "summaries" /\ Len(events) > 0)
          => StableTimeline(resultSvc.summaries[1],
                            TimelinePairsSvc(resultSvc.summaries[1].timeline))

\* in_transit and port_departure of 09:00:00 were received in this order, with
\* a port_arrival of the day before: both files list the two in batch order
\* and report port_departure after in_transit as out of sequence
C18_Witness ==
    /\ Len(events) = 3
    /\ events[1].event_type = Str("in_transit")
    /\ events[2].event_type = Str("port_departure")
    /\ events[3].timestamp = Str("2024-11-15T08:00:00Z")
    /\ \A r \in {result, resultSvc} :
           /\ r.kind = "summaries"
           /\ r.summaries[1].timeline[2].event_type = Str("in_transit")
           /\ r.summaries[1].timeline[3].event_type = Str("port_departure")
           /\ \E k \in 1..Len(r.summaries[1].anomalies) :
                  r.summaries[1].anomalies[k].type = "out_of_sequence"

\* what the first three rules find while sorted event i of a timeline is
\* evaluated: type and index of the event evaluated
FirstLoop(timeline) ==
    Flatten([i \in 1..Len(timeline) |->
               (IF "delay_minutes" \in DOMAIN timeline[i] /\ timeline[i].delay_minutes > 120
                THEN <<[type |-> "late_arrival", at |-> i]>> ELSE <<>>)
               \o (IF i > 1 /\ SecondsBetween(timeline[i - 1], timeline[i]) > 24 * 3600
                   THEN <<[type |-> "unusual_gap", at |-> i]>> ELSE <<>>)
               \o (IF /\ FirstSameType(timeline, i, i + 1) # 0
                      /\ SecondsBetween(timeline[i],
                                        timeline[FirstSameType(timeline, i, i + 1)]) <= 3600
                   THEN <<[type |-> "duplicate_event", at |-> i]>> ELSE <<>>)],
            Len(timeline))

\* what the fourth rule finds for the pairs (i, i + 1) of a timeline; the pair
\* counts as evaluated at event i + d
SecondLoop(timeline, svc, d) ==
    Flatten([i \in 1..(Len(timeline) - 1) |->
               IF IF svc THEN OutOfSequenceSvc(timeline[i].event_type,
                                               timeline[i + 1].event_type)
                  ELSE OutOfSequence(timeline[i].event_type, timeline[i + 1].event_type)
               THEN <<[type |-> "out_of_sequence", at |-> i + d]>> ELSE <<>>],
            Len(timeline) - 1)

\* the anomalies of the summary are those of the first three rules event by
\* event, then those of the fourth rule pair by pair
ListsLoopByLoop(summary, svc) ==
    [k \in 1..Len(summary.anomalies) |-> summary.anomalies[k].type]
        = [k \in 1..Len(FirstLoop(summary.timeline) \o SecondLoop(summary.timeline, svc, 0))
             |-> (FirstLoop(summary.timeline) \o SecondLoop(summary.timeline, svc, 0))[k].type]

NeverBack(found) == \A m, n \in 1..Len(found) : m < n => found[m].at <= found[n].at

\* C19 as stated: the anomalies of a summary are in detection order by sorted
\* event index over all four rules, whichever event of a pair the fourth rule
\* is taken to be evaluated at.
C19_ByEventIndex ==
    /\ (result.kind = "summaries" /\ Len(events) > 0) =>
          /\ ListsLoopByLoop(result.summaries[1], FALSE)
          /\ \E d \in {0, 1} : NeverBack(FirstLoop(result.summaries[1].timeline)
                                          \o SecondLoop(result.summaries[1].timeline, FALSE, d))
    /\ (resultSvc.kind = "summaries" /\ Len(events) > 0) =>
          /\ ListsLoopByLoop(resultSvc.summaries[1], TRUE)
          /\ \E d \in {0, 1} : NeverBack(FirstLoop(resultSvc.summaries[1].timeline)
                                          \o SecondLoop(resultSvc.summaries[1].timeline, TRUE, d))

\* C19, amended: the anomalies of a summary are first the late_arrival,
\* unusual_gap and duplicate_event anomalies in detection order by sorted
\* event index, then the out_of_sequence anomalies in the order of their pairs.
C19_LoopByLoop ==
    /\ (result.kind = "summaries" /\ Len(events) > 0)
          => ListsLoopByLoop(result.summaries[1], FALSE)
    /\ (resultSvc.kind = "summaries" /\ Len(events) > 0)
          => ListsLoopByLoop(resultSvc.summaries[1], TRUE)

\* customs_clearance, then the two port_arrival events: both files list the
\* late arrival and the gap found at the third event before the sequence
\* anomalies of the pairs (0, 1) and (1, 2)
C19_Witness ==
    /\ Len(events) = 3
    /\ events[1].event_type = Str("customs_clearance")
    /\ \A r \in {result, resultSvc} :
           /\ r.kind = "summaries"
           /\ [k \in 1..Len(r.summaries[1].anomalies) |-> r.summaries[1].anomalies[k].type]
                = <<"late_arrival", "unusual_gap", "out_of_sequence", "out_of_sequence">>

\* ---------------------------------------------------------------------------
\* What a caller may rely on: the checks of one event
\* ---------------------------------------------------------------------------

Mentions(m, words) ==
    \E i \in 1..(Len(m) - Len(words) + 1) : SubSeq(m, i, i + Len(words) - 1) = words

\* how many messages of r name event i (from 1) and mention words
Reported(r, i, words) ==
    Cardinality({k \in 1..Len(MessagesOf(r)) :
                    /\ MessageIndex(MessagesOf(r)[k]) = i - 1
                    /\ Mentions(MessagesOf(r)[k], words)})

\* the number of metadata errors an event is to get: none if its type asks
\* for no field, one if it carries no metadata object, else one per field
\* its metadata lacks
MetadataErrorsDue(e) ==
    IF e.event_type.type # "string" \/ e.event_type.value \notin DOMAIN REQUIRED_METADATA
    THEN 0
    ELSE IF REQUIRED_METADATA[e.event_type.value].value = <<>> THEN 0
    ELSE IF e.metadata.type # "object" THEN 1
    ELSE Cardinality({k \in 1..Len(REQUIRED_METADATA[e.event_type.value].value) :
                         REQUIRED_METADATA[e.event_type.value].value[k]
                             \notin DOMAIN e.metadata.value})
Failing(check) == IF check THEN 0 ELSE 1

ChecksIndependent(r, i) ==
    /\ Reported(r, i, "container_id is required")
         = Failing(/\ events[i].container_id.type = "string"
                   /\ Trim(events[i].container_id.value) # "")
    /\ Reported(r, i, "Invalid event_type")
         = Failing(/\ events[i].event_type.type = "string"
                   /\ events[i].event_type.value \in DOMAIN REQUIRED_METADATA)
    /\ Reported(r, i, "timestamp must be")
         = Failing(/\ events[i].timestamp.type = "string"
                   /\ ~DateParse(events[i].timestamp).nan
                   /\ Includes(events[i].timestamp.value, "T")
                   /\ EndsWith(events[i].timestamp.value, "Z"))
    /\ Reported(r, i, "location is required")
         = Failing(/\ events[i].location.type = "string"
                   /\ Trim(events[i].location.value) # "")
    /\ Reported(r, i, "metadata") = MetadataErrorsDue(events[i])
    /\ Reported(r, i, "Event ")
         = Reported(r, i, "container_id is required") + Reported(r, i, "Invalid event_type")
           + Reported(r, i, "timestamp must be") + Reported(r, i, "location is required")
           + Reported(r, i, "metadata")

\* C20: for every event of a batch the errors reported are exactly one for
\* each failing check among container_id, event_type, timestamp and location,
\* plus the metadata errors; no failing check hides the error of another.
C20_ChecksIndependent ==
    \A r \in Returned : \A i \in 1..Len(events) : ChecksIndependent(r, i)

\* ---------------------------------------------------------------------------
\* What a caller may rely on: one batch against another
\* ---------------------------------------------------------------------------

\* the problems r names for event i (from 1): its messages without the index
ProblemsOf(r, i) ==
    {SubSeq(MessagesOf(r)[k], ColonAt(MessagesOf(r)[k], 7), Len(MessagesOf(r)[k])) :
        k \in {j \in 1..Len(MessagesOf(r)) : MessageIndex(MessagesOf(r)[j]) = i - 1}}

\* r answered the batch before and r2 the batch after, one a permutation of
\* the other: every event keeps its problems, under the index of its new
\* position, and the two are rejected together
SameProblems(before, after, r, r2) ==
    (r # NotCalled /\ r2 # NotCalled /\ Len(before) = Len(after)) =>
        \A p \in Permutations(1..Len(before)) :
            (after = [k \in 1..Len(before) |-> before[p[k]]]) =>
                /\ \A k \in 1..Len(after) : ProblemsOf(r2, k) = ProblemsOf(r, p[k])
                /\ \A k \in 1..Len(MessagesOf(r2)) :
                       MessageIndex(MessagesOf(r2)[k]) \in 0..(Len(after) - 1)
                /\ (r2.kind = "rejection") <=> (r.kind = "rejection")

\* C21: validation does not depend on the order of the batch: when the same
\* events are submitted in another order each event gets the same problems,
\* each message names the event's position in the new order, and the batch is
\* rejected exactly if it was rejected before.
C21_OrderIndependent ==
    [][/\ SameProblems(events, events', result, result')
       /\ SameProblems(events, events', resultSvc, resultSvc')]_vars

\* a rejected batch of two events with different problems, the first of them
\* without a location and the second with a blank container_id
C21_Witness ==
    /\ Len(events) = 2
    /\ result.kind = "rejection"
    /\ resultSvc = NotCalled
    /\ events[1].location = Undefined
    /\ events[2].container_id = Str(" ")
    /\ ProblemsOf(result, 1) # {} /\ ProblemsOf(result, 2) # {}
    /\ ProblemsOf(result, 1) # ProblemsOf(result, 2)

\* r answered the batch and alone the events of container id on their own:
\* the summary alone has for id is the summary r has for it
SameAlone(r, id, alone) ==
    alone.kind = "summaries" =>
        /\ r.kind = "summaries"
        /\ Len(alone.summaries) = 1
        /\ PlacesOf(r.summaries, id) # {}
        /\ \A k \in PlacesOf(r.summaries, id) : r.summaries[k] = alone.summaries[1]

\* C22: for every valid batch and every container id in it, the summary of
\* that container is the one the processor gives for the events of the
\* container alone; the events of other containers, wherever they stand in
\* the batch, change nothing of it.
C22_ContainersIndependent ==
    \A id \in ContainerIds :
        /\ result # NotCalled
              => SameAlone(result, id, processContainerEvents(EventsOf(id)).result)
        /\ resultSvc # NotCalled
              => SameAlone(resultSvc, id, processContainerEventsSvc(EventsOf(id)).result)

TargetsAt(mine, type, timestamp) ==
    Cardinality({i \in 1..Len(mine) :
                    mine[i].event_type = type /\ mine[i].timestamp = timestamp})
    - (IF \E i \in 1..Len(mine) :
              /\ mine[i].event_type = type
              /\ SecondsFrom(mine[i].timestamp, timestamp) > 0
       THEN 0 ELSE 1)

AnomaliesBounded(found) ==
    \A d \in 1..Len(found) :
        /\ \A i \in 1..Len(EventsOf(found[d].container_id)) :
               Cardinality(DuplicatesAt(found[d].anomalies,
                                        EventsOf(found[d].container_id)[i].event_type.value,
                                        EventsOf(found[d].container_id)[i].timestamp))
                   <= TargetsAt(EventsOf(found[d].container_id),
                                EventsOf(found[d].container_id)[i].event_type,
                                EventsOf(found[d].container_id)[i].timestamp)
        /\ \A kind \in {"duplicate_event", "unusual_gap", "out_of_sequence"} :
               Cardinality(OfKind(found[d].anomalies, kind))
                   <= Len(EventsOf(found[d].container_id)) - 1
        /\ Len(EventsOf(found[d].container_id)) = 1 =>
               /\ Len(found[d].anomalies) <= 1
               /\ \A k \in 1..Len(found[d].anomalies) :
                      found[d].anomalies[k].type = "late_arrival"

\* C24: in a container group of n events each event is the later one of at
\* most one duplicate_event anomaly, so there are at most n-1 of them; there
\* are at most n-1 unusual_gap and at most n-1 out_of_sequence anomalies; and
\* a group of one event has no anomaly but, at most, one late_arrival.
C24_AnomaliesBounded == AnomaliesBounded(detected) /\ AnomaliesBounded(detectedSvc)

\* three times the same event: both files report the second and the third as
\* duplicates, and the two pairs as out of sequence
C24_Witness ==
    /\ Len(events) = 3
    /\ events[1] = events[2] /\ events[2] = events[3]
    /\ \A found \in {detected, detectedSvc} :
           /\ Len(found) = 1
           /\ Cardinality(OfKind(found[1].anomalies, "duplicate_event")) = 2
           /\ Cardinality(OfKind(found[1].anomalies, "out_of_sequence")) = 2

\* ---------------------------------------------------------------------------
\* What a caller may rely on: the two files against each other
\* ---------------------------------------------------------------------------

TypesOf(anomalies) == [k \in 1..Len(anomalies) |-> anomalies[k].type]

\* r and rSvc answer the same batch: both reject or neither does, and if
\* they summarise, the same containers in the same order with the same
\* timelines and the same sequence of anomaly types
Agree(r, rSvc) ==
    /\ (r.kind = "rejection") <=> (rSvc.kind = "rejection")
    /\ (r.kind = "summaries") <=> (rSvc.kind = "summaries")
    /\ r.kind = "summaries" =>
          /\ Len(r.summaries) = Len(rSvc.summaries)
          /\ \A k \in 1..Len(r.summaries) :
                 /\ r.summaries[k].container_id = rSvc.summaries[k].container_id
                 /\ r.summaries[k].timeline = rSvc.summaries[k].timeline
                 /\ TypesOf(r.summaries[k].anomalies) = TypesOf(rSvc.summaries[k].anomalies)

\* C25: src/containerProcessor.js and src/services/containerProcessor.js
\* agree on every batch: one rejects it exactly if the other does, and on an
\* accepted batch they return the same container ids in the same order, with
\* the same timeline and the same sequence of anomaly types.
C25_FilesAgree ==
    (result # NotCalled /\ resultSvc # NotCalled) => Agree(result, resultSvc)

===========================================================================
